---- MODULE Spec2Model ----
(***************************************************************************)
(* A model of the stock-valuation repository: ValuationCalculator          *)
(* (src/valuation_calculator.py), StockRecommender (src/recommender.py)    *)
(* and the MetricsProvider contract of DataFetcher.get_metrics             *)
(* (src/data_fetcher.py).                                                  *)
(*                                                                         *)
(* Numbers.  Python floats are modelled as exact rationals [n, d] with     *)
(* d > 0, kept in lowest terms.  The one computation whose exact value     *)
(* leaves the integer width, the ten-year DCF accumulation, is carried in  *)
(* fixed point with FxScale steps per unit, rounding down after every      *)
(* operation as the float code rounds after every operation.               *)
(* Optional values (Python None) are <<>>, a present value v is <<v>>.     *)
(*                                                                         *)
(* A value that an operator uses more than once is bound by a set binder,  *)
(* CHOOSE r \in {body : x \in {value}} : TRUE, which reads "let x be value  *)
(* in body" and computes the value once.                                   *)
(***************************************************************************)
EXTENDS Integers, Sequences, FiniteSets, TLC

VARIABLES pc, tickers, top_n, idx, fetched, analyses, table, op, arg, ret,
          cache_enabled, stock_cache, data_cache, contacts, history, metrics_history

\* the state of a DataFetcher and of the provider behind it
fetcher_vars == <<cache_enabled, stock_cache, data_cache, contacts, history, metrics_history>>

vars == <<pc, tickers, top_n, idx, fetched, analyses, table, op, arg, ret, fetcher_vars>>

(***************************************************************************)
(* Rational arithmetic                                                     *)
(***************************************************************************)
Abs(x) == IF x < 0 THEN -x ELSE x

RECURSIVE Gcd(_, _)
Gcd(a, b) == IF b = 0 THEN a ELSE CHOOSE r \in {Gcd(b, m) : m \in {a % b}} : TRUE

Q(n, d) ==
    CHOOSE r \in {[n |-> (s * n0) \div g, d |-> (s * d0) \div g] :
                    s \in {IF d < 0 THEN -1 ELSE 1}, g \in {Gcd(Abs(n), Abs(d))},
                    n0 \in {n}, d0 \in {d}} : TRUE

R(i) == [n |-> i, d |-> 1]

Zero == R(0)

One == R(1)

RAddG(a, b, g) == Q(a.n * (b.d \div g) + b.n * (a.d \div g), (a.d \div g) * b.d)

RAddV(a, b) == CHOOSE r \in {RAddG(a, b, g) : g \in {Gcd(a.d, b.d)}} : TRUE

RAdd(x, y) == CHOOSE r \in {RAddV(a, b) : a \in {x}, b \in {y}} : TRUE

RNeg(x) == CHOOSE r \in {[n |-> -a.n, d |-> a.d] : a \in {x}} : TRUE

RSub(x, y) == RAdd(x, RNeg(y))

RMulV(x, y) ==
    CHOOSE r \in {Q(a.n * b.n, a.d * b.d) :
                    a \in {Q(x.n, y.d)}, b \in {Q(y.n, x.d)}} : TRUE

RMul(x, y) == CHOOSE r \in {RMulV(a, b) : a \in {x}, b \in {y}} : TRUE

\* x / y for y # 0 (the callers test the divisor first, as the code does)
RDiv(x, y) == CHOOSE r \in {RMulV(a, Q(b.d, b.n)) : a \in {x}, b \in {y}} : TRUE

\* a/b < c/d for b > 0 and d > 0, by the integer parts and then the
\* reciprocals of the fractional parts, so that no product is formed
RECURSIVE FracLt(_, _, _, _)
FracLt(a, b, c, d) ==
    CHOOSE r \in {IF qa # qc THEN qa < qc
                  ELSE IF rc = 0 THEN FALSE
                  ELSE IF ra = 0 THEN TRUE
                  ELSE FracLt(d0, rc, b0, ra) :
                    qa \in {a \div b}, qc \in {c \div d}, ra \in {a % b}, rc \in {c % d},
                    b0 \in {b}, d0 \in {d}} : TRUE

RLt(x, y) == CHOOSE r \in {FracLt(a.n, a.d, b.n, b.d) : a \in {x}, b \in {y}} : TRUE

RLe(x, y) == ~RLt(y, x)

RGt(x, y) == RLt(y, x)

RGe(x, y) == ~RLt(x, y)

RMax(x, y) == CHOOSE r \in {IF RLt(a, b) THEN b ELSE a : a \in {x}, b \in {y}} : TRUE

RMin(x, y) == CHOOSE r \in {IF RLt(b, a) THEN b ELSE a : a \in {x}, b \in {y}} : TRUE

\* percent p as a rational: Pct(15) = 0.15
Pct(p) == Q(p, 100)

\* per mille m as a rational: Pml(25) = 0.025
Pml(m) == Q(m, 1000)

(***************************************************************************)
(* Fixed point for the DCF accumulation                                    *)
(***************************************************************************)
FxScale == 10 ^ 3

\* floor(a * b / c) for c > 0 without forming a * b
MulDiv(a, b, c) ==
    CHOOSE r \in {(x \div z) * y + ((x % z) * y) \div z : x \in {a}, y \in {b}, z \in {c}} : TRUE

ToFx(x) == CHOOSE r \in {MulDiv(a.n, FxScale, a.d) : a \in {x}} : TRUE

FromFx(f) == Q(f, FxScale)

(***************************************************************************)
(* Optional values                                                         *)
(***************************************************************************)
NoneVal == <<>>

Some(v) == <<v>>

IsNone(x) == Len(x) = 0

Val(x) == x[1]

(***************************************************************************)
(* SECTOR_PROFILES, in the order of the dictionary literal                 *)
(***************************************************************************)
SECTOR_PROFILES ==
    << [sector |-> "TELECOM",      tk |-> {"T", "VZ", "VOX"},                base_growth |-> Pml(20),  min_roe |-> Pct(10)],
       [sector |-> "UTILITIES",    tk |-> {"NEE", "DUK", "SO"},              base_growth |-> Pml(25),  min_roe |-> Pct(8)],
       [sector |-> "TECH_LARGE",   tk |-> {"AAPL", "MSFT", "GOOGL", "NVDA"}, base_growth |-> Pml(80),  min_roe |-> Pct(15)],
       [sector |-> "NETWORK",      tk |-> {"V", "MA"},                       base_growth |-> Pml(120), min_roe |-> Pct(40)],
       [sector |-> "FINTECH",      tk |-> {"PYPL"},                          base_growth |-> Pml(100), min_roe |-> Pct(20)],
       [sector |-> "CONSUMER",     tk |-> {"PG", "KO", "PEP", "WMT", "MCD"}, base_growth |-> Pml(30),  min_roe |-> Pct(12)],
       [sector |-> "HEALTHCARE",   tk |-> {"JNJ", "UNH", "ABT"},             base_growth |-> Pml(50),  min_roe |-> Pct(12)],
       [sector |-> "RETAIL",       tk |-> {"HD", "MCD", "SBUX"},             base_growth |-> Pml(30),  min_roe |-> Pct(15)],
       [sector |-> "INDUSTRIALS",  tk |-> {"BA", "IBM"},                     base_growth |-> Pml(30),  min_roe |-> Pct(10)],
       [sector |-> "MEDIA",        tk |-> {"DIS", "NFLX"},                   base_growth |-> Pml(40),  min_roe |-> Pct(12)],
       [sector |-> "SOCIAL_MEDIA", tk |-> {"META"},                          base_growth |-> Pml(120), min_roe |-> Pct(15)] >>

\* str.upper() on the ticker strings the model draws
upper(t) ==
    CASE t = "v" -> "V"
      [] t = "t" -> "T"
      [] t = "jnj" -> "JNJ"
      [] OTHER -> t

(***************************************************************************)
(* ValuationCalculator                                                     *)
(***************************************************************************)
RISK_FREE_RATE == Pml(45)

MARKET_RISK_PREMIUM == Pml(55)

MARGIN_OF_SAFETY_HIGH_QUALITY == Pct(20)

MARGIN_OF_SAFETY_MEDIUM_QUALITY == Pct(35)

MARGIN_OF_SAFETY_LOW_QUALITY == Pct(50)

MARGIN_OF_SAFETY_POOR_QUALITY == Pct(65)

VALUE_TRAP_FCF_YIELD_MIN == Pct(15)

VALUE_TRAP_ROE_MAX == Pct(10)

\* a threshold that one signal alone reaches
VALUE_TRAP_SCORE_THRESHOLD_ONE_SIGNAL == Pct(30)

VALUE_TRAP_SCORE_THRESHOLD == Pct(50)

\* calculate_free_cash_flow with the operands of the difference exchanged
calculate_free_cash_flow_exchanged(operating_cash_flow, capital_expenditures) ==
    IF capital_expenditures - operating_cash_flow > 0
    THEN capital_expenditures - operating_cash_flow ELSE 0

\* the difference without the floor at zero
calculate_free_cash_flow_unclamped(operating_cash_flow, capital_expenditures) ==
    operating_cash_flow - capital_expenditures

calculate_free_cash_flow(operating_cash_flow, capital_expenditures) ==
    LET fcf == operating_cash_flow - capital_expenditures
    IN  IF fcf > 0 THEN fcf ELSE 0

calculate_fcf_per_share(free_cash_flow, shares_outstanding) ==
    IF shares_outstanding <= 0 THEN Zero
    ELSE Q(free_cash_flow, shares_outstanding)

\* a guard that refuses a zero denominator only
calculate_roe_zero_only(net_income, shareholders_equity) ==
    IF shareholders_equity = 0 THEN Zero
    ELSE Q(net_income, shareholders_equity)

calculate_roe(net_income, shareholders_equity) ==
    IF shareholders_equity <= 0 THEN Zero
    ELSE Q(net_income, shareholders_equity)

\* nopat is a rational, invested_capital an integer amount
calculate_roic(nopat, invested_capital) ==
    IF invested_capital <= 0 THEN Zero
    ELSE RDiv(nopat, R(invested_capital))

\* the after-tax income of a loss as well
estimate_nopat_unguarded(operating_income, tax_rate) ==
    RMul(R(operating_income), RSub(One, tax_rate))

estimate_nopat(operating_income, tax_rate) ==
    IF operating_income <= 0 THEN Zero
    ELSE RMul(R(operating_income), RSub(One, tax_rate))

DEFAULT_TAX_RATE == Pct(21)

RECURSIVE sector_lookup(_, _)
sector_lookup(ticker_upper, i) ==
    IF i > Len(SECTOR_PROFILES) THEN [growth |-> Pml(40), sector |-> "UNKNOWN"]
    ELSE IF ticker_upper \in SECTOR_PROFILES[i].tk
         THEN [growth |-> SECTOR_PROFILES[i].base_growth,
               sector |-> SECTOR_PROFILES[i].sector]
         ELSE sector_lookup(ticker_upper, i + 1)

get_sector_growth_rate(ticker) == sector_lookup(upper(ticker), 1)

\* calculate_quality_rating without the test roic > 0
calculate_quality_rating_any_roic(roe, roic) ==
    LET primary_return == IF ~IsNone(roic) THEN Val(roic) ELSE roe
        tier ==
            IF RGe(primary_return, Pct(40))
                THEN [quality |-> "EXCEPTIONAL", mos |-> Pct(15)]
            ELSE IF RGe(primary_return, Pct(20))
                THEN [quality |-> "EXCELLENT", mos |-> MARGIN_OF_SAFETY_HIGH_QUALITY]
            ELSE IF RGe(primary_return, Pct(15))
                THEN [quality |-> "GOOD", mos |-> MARGIN_OF_SAFETY_HIGH_QUALITY]
            ELSE IF RGe(primary_return, Pct(10))
                THEN [quality |-> "ADEQUATE", mos |-> MARGIN_OF_SAFETY_MEDIUM_QUALITY]
            ELSE IF RGe(primary_return, Pct(8))
                THEN [quality |-> "POOR", mos |-> MARGIN_OF_SAFETY_LOW_QUALITY]
            ELSE [quality |-> "WEAK", mos |-> MARGIN_OF_SAFETY_POOR_QUALITY]
    IN  [quality |-> tier.quality,
         return_metric |-> primary_return,
         margin_of_safety |-> tier.mos]

\* roic is optional
calculate_quality_rating(roe, roic) ==
    LET primary_return ==
            IF ~IsNone(roic) /\ RGt(Val(roic), Zero) THEN Val(roic) ELSE roe
        tier ==
            IF RGe(primary_return, Pct(40))
                THEN [quality |-> "EXCEPTIONAL", mos |-> Pct(15)]
            ELSE IF RGe(primary_return, Pct(25))
                THEN [quality |-> "EXCELLENT", mos |-> MARGIN_OF_SAFETY_HIGH_QUALITY]
            ELSE IF RGe(primary_return, Pct(20))
                THEN [quality |-> "EXCELLENT", mos |-> MARGIN_OF_SAFETY_HIGH_QUALITY]
            ELSE IF RGe(primary_return, Pct(15))
                THEN [quality |-> "GOOD", mos |-> MARGIN_OF_SAFETY_HIGH_QUALITY]
            ELSE IF RGe(primary_return, Pct(10))
                THEN [quality |-> "ADEQUATE", mos |-> MARGIN_OF_SAFETY_MEDIUM_QUALITY]
            ELSE IF RGe(primary_return, Pct(8))
                THEN [quality |-> "POOR", mos |-> MARGIN_OF_SAFETY_LOW_QUALITY]
            ELSE [quality |-> "WEAK", mos |-> MARGIN_OF_SAFETY_POOR_QUALITY]
    IN  [quality |-> tier.quality,
         return_metric |-> primary_return,
         margin_of_safety |-> tier.mos]

\* detect_value_trap with >= for > in the test of signal 1
detect_value_trap_ge(roe, fcf_per_share, current_price, growth_rate) ==
    IF RLe(current_price, Zero)
    THEN [is_trap |-> FALSE, trap_score |-> Zero, reasons |-> <<>>]
    ELSE
    LET fcf_yield == IF RGt(fcf_per_share, Zero)
                     THEN RDiv(fcf_per_share, current_price) ELSE Zero
        s1 == RGe(fcf_yield, VALUE_TRAP_FCF_YIELD_MIN)
        s2 == RLt(roe, VALUE_TRAP_ROE_MAX)
        s3 == RLe(growth_rate, Pml(30)) /\ RGt(fcf_yield, Pct(10))
        trap_score == RAdd(RAdd(IF s1 THEN Pct(40) ELSE Zero,
                                IF s2 THEN Pct(30) ELSE Zero),
                           IF s3 THEN Pct(30) ELSE Zero)
        reasons == (IF s1 THEN <<"high_fcf_yield">> ELSE <<>>)
                   \o (IF s2 THEN <<"low_roe">> ELSE <<>>)
                   \o (IF s3 THEN <<"low_growth_high_yield">> ELSE <<>>)
    IN  [is_trap |-> RGe(trap_score, VALUE_TRAP_SCORE_THRESHOLD),
         trap_score |-> trap_score,
         fcf_yield |-> fcf_yield,
         reasons |-> reasons]

\* the reasons are recorded by the signal that appended them
detect_value_trap(roe, fcf_per_share, current_price, growth_rate) ==
    IF RLe(current_price, Zero)
    THEN [is_trap |-> FALSE, trap_score |-> Zero, reasons |-> <<>>]
    ELSE
    LET fcf_yield == IF RGt(fcf_per_share, Zero)
                     THEN RDiv(fcf_per_share, current_price) ELSE Zero
        s1 == RGt(fcf_yield, VALUE_TRAP_FCF_YIELD_MIN)
        s2 == RLt(roe, VALUE_TRAP_ROE_MAX)
        s3 == RLe(growth_rate, Pml(30)) /\ RGt(fcf_yield, Pct(10))
        trap_score == RAdd(RAdd(IF s1 THEN Pct(40) ELSE Zero,
                                IF s2 THEN Pct(30) ELSE Zero),
                           IF s3 THEN Pct(30) ELSE Zero)
        reasons == (IF s1 THEN <<"high_fcf_yield">> ELSE <<>>)
                   \o (IF s2 THEN <<"low_roe">> ELSE <<>>)
                   \o (IF s3 THEN <<"low_growth_high_yield">> ELSE <<>>)
    IN  [is_trap |-> RGe(trap_score, VALUE_TRAP_SCORE_THRESHOLD),
         trap_score |-> trap_score,
         fcf_yield |-> fcf_yield,
         reasons |-> reasons]

BETA_DEFAULT == One

DEBT_TO_EQUITY_DEFAULT == Pct(50)

calculate_wacc(risk_free_rate, market_risk_premium, beta, debt_to_equity) ==
    LET cost_of_equity == RAdd(risk_free_rate, RMul(beta, market_risk_premium))
    IN  RDiv(cost_of_equity, RAdd(One, debt_to_equity))

DEFAULT_WACC ==
    calculate_wacc(RISK_FREE_RATE, MARKET_RISK_PREMIUM, BETA_DEFAULT, DEBT_TO_EQUITY_DEFAULT)

TERMINAL_GROWTH_DEFAULT == Pml(25)

PROJECTION_YEARS_DEFAULT == 10

\* the for loop of the DCF: cf is current_fcf, factor is (1 + wacc) ** year,
\* pv is pv_fcf, all in fixed point
RECURSIVE dcf_loop(_, _, _, _, _, _, _)
dcf_loop(year, projection_years, cf, factor, pv, growth_rate, wacc) ==
    IF year > projection_years
    THEN [pv_fcf |-> pv, current_fcf |-> cf, factor |-> factor]
    ELSE CHOOSE r \in
           {dcf_loop(year + 1, projection_years, cf2, f2,
                     pv + MulDiv(cf2, FxScale, f2), growth_rate, wacc) :
              cf2 \in {MulDiv(cf, growth_rate.d + growth_rate.n, growth_rate.d)},
              f2 \in {MulDiv(factor, wacc.d + wacc.n, wacc.d)}} : TRUE

ZeroDivisionError == <<"ZeroDivisionError">>

IsRaised(r) == Len(r) = 1

\* the standard case behind a guard on the terminal denominator
dcf_value_guarded(fcf_per_share, g, w, tg, projection_years) ==
    IF RLe(w, tg) THEN <<Zero, Zero>>
    ELSE CHOOSE r \in
      {CHOOSE r2 \in
         {<<FromFx(l.pv_fcf + pv_terminal), FromFx(l.pv_fcf + pv_terminal)>> :
            pv_terminal \in
              {MulDiv(MulDiv(MulDiv(l.current_fcf, tg.d + tg.n, tg.d), den.d, den.n),
                      FxScale, l.factor)}} : TRUE :
         l \in {dcf_loop(1, projection_years, ToFx(fcf_per_share), FxScale, 0, g, w)},
         den \in {RSub(w, tg)}} : TRUE

\* lines 412-429: the standard case, g and tg clamped, w > g
dcf_value(fcf_per_share, g, w, tg, projection_years) ==
    CHOOSE r \in
      {IF den.n = 0 THEN ZeroDivisionError
       ELSE CHOOSE r2 \in
              {<<FromFx(l.pv_fcf + pv_terminal), FromFx(l.pv_fcf + pv_terminal)>> :
                 pv_terminal \in
                   {MulDiv(IF den.n > 0
                           THEN MulDiv(MulDiv(l.current_fcf, tg.d + tg.n, tg.d), den.d, den.n)
                           ELSE -MulDiv(MulDiv(l.current_fcf, tg.d + tg.n, tg.d), den.d, -den.n),
                           FxScale, l.factor)}} : TRUE :
         l \in {dcf_loop(1, projection_years, ToFx(fcf_per_share), FxScale, 0, g, w)},
         den \in {RSub(w, tg)}} : TRUE

\* lines 408-429, with the growth rate g and the terminal rate tg clamped and
\* the discount rate w chosen
intrinsic_value_clamped(fcf_per_share, g, w, tg, projection_years) ==
    IF RLe(w, g)
    THEN IF RAdd(w, Pct(1)).n = 0 THEN ZeroDivisionError
         ELSE <<RDiv(RMul(fcf_per_share, RAdd(One, g)), RAdd(w, Pct(1))), Zero>>
    ELSE dcf_value(fcf_per_share, g, w, tg, projection_years)

\* the growth rate floored at zero but not capped at 8%
calculate_intrinsic_value_uncapped(fcf_per_share, ticker, growth_rate, wacc, terminal_growth_rate, projection_years) ==
    IF RLe(fcf_per_share, Zero) THEN <<Zero, Zero>>
    ELSE CHOOSE r \in
           {intrinsic_value_clamped(f, g, w, tg, projection_years) :
              f \in {fcf_per_share},
              g \in {RMax(IF IsNone(growth_rate)
                          THEN IF ~IsNone(ticker) /\ Val(ticker) # ""
                               THEN get_sector_growth_rate(Val(ticker)).growth
                               ELSE Pml(30)
                          ELSE Val(growth_rate), Zero)},
              tg \in {RMin(terminal_growth_rate, Pml(25))},
              w \in {IF IsNone(wacc) THEN DEFAULT_WACC ELSE Val(wacc)}} : TRUE

\* ticker, growth_rate and wacc are optional; the result is the pair
\* <<intrinsic_value, second slot>> or ZeroDivisionError
calculate_intrinsic_value(fcf_per_share, ticker, growth_rate, wacc, terminal_growth_rate, projection_years) ==
    IF RLe(fcf_per_share, Zero) THEN <<Zero, Zero>>
    ELSE CHOOSE r \in
           {intrinsic_value_clamped(f, g, w, tg, projection_years) :
              f \in {fcf_per_share},
              g \in {RMin(RMax(IF IsNone(growth_rate)
                               THEN IF ~IsNone(ticker) /\ Val(ticker) # ""
                                    THEN get_sector_growth_rate(Val(ticker)).growth
                                    ELSE Pml(30)
                               ELSE Val(growth_rate), Zero), Pml(80))},
              tg \in {RMin(terminal_growth_rate, Pml(25))},
              w \in {IF IsNone(wacc) THEN DEFAULT_WACC ELSE Val(wacc)}} : TRUE

\* rate_bands with the value-trap override left out
rate_bands_no_trap(current_price, intrinsic_value, quality_rating, value_trap_analysis, value_with_mos, discount, upside) ==
    IF RLt(current_price, value_with_mos)
    THEN [rating |-> "SIGNIFICANTLY_UNDERVALUED", discount |-> discount,
          signal |-> "STRONG_BUY", upside_potential |-> upside,
          quality |-> quality_rating.quality]
    ELSE IF RLt(current_price, intrinsic_value)
    THEN [rating |-> "UNDERVALUED", discount |-> discount, signal |-> "BUY",
          upside_potential |-> upside, quality |-> quality_rating.quality]
    ELSE IF RLt(current_price, RMul(intrinsic_value, Pct(115)))
    THEN [rating |-> "FAIRLY_VALUED", discount |-> discount, signal |-> "HOLD",
          upside_potential |-> upside, quality |-> quality_rating.quality]
    ELSE [rating |-> "OVERVALUED", discount |-> discount, signal |-> "AVOID",
          upside_potential |-> upside, quality |-> quality_rating.quality]

\* rate_bands with <= for < in the comparisons with intrinsic_value
rate_bands_le(current_price, intrinsic_value, quality_rating, value_trap_analysis, value_with_mos, discount, upside) ==
    IF value_trap_analysis.is_trap
    THEN [rating |-> "VALUE_TRAP", discount |-> discount, signal |-> "AVOID",
          upside_potential |-> upside, quality |-> quality_rating.quality,
          warning |-> "High FCF yield with low ROE - unsustainable"]
    ELSE IF RLt(current_price, value_with_mos)
    THEN [rating |-> "SIGNIFICANTLY_UNDERVALUED", discount |-> discount,
          signal |-> "STRONG_BUY", upside_potential |-> upside,
          quality |-> quality_rating.quality]
    ELSE IF RLe(current_price, intrinsic_value)
    THEN [rating |-> "UNDERVALUED", discount |-> discount, signal |-> "BUY",
          upside_potential |-> upside, quality |-> quality_rating.quality]
    ELSE IF RLe(current_price, RMul(intrinsic_value, Pct(115)))
    THEN [rating |-> "FAIRLY_VALUED", discount |-> discount, signal |-> "HOLD",
          upside_potential |-> upside, quality |-> quality_rating.quality]
    ELSE [rating |-> "OVERVALUED", discount |-> discount, signal |-> "AVOID",
          upside_potential |-> upside, quality |-> quality_rating.quality]

\* lines 466-496, with value_with_mos, discount and upside computed
\* rate_bands with HOLD reaching up to 1.20 * intrinsic_value
rate_bands_hold_to_120(current_price, intrinsic_value, quality_rating, value_trap_analysis, value_with_mos, discount, upside) ==
    IF value_trap_analysis.is_trap
    THEN [rating |-> "VALUE_TRAP", discount |-> discount, signal |-> "AVOID",
          upside_potential |-> upside, quality |-> quality_rating.quality,
          warning |-> "High FCF yield with low ROE - unsustainable"]
    ELSE IF RLt(current_price, value_with_mos)
    THEN [rating |-> "SIGNIFICANTLY_UNDERVALUED", discount |-> discount,
          signal |-> "STRONG_BUY", upside_potential |-> upside,
          quality |-> quality_rating.quality]
    ELSE IF RLt(current_price, intrinsic_value)
    THEN [rating |-> "UNDERVALUED", discount |-> discount, signal |-> "BUY",
          upside_potential |-> upside, quality |-> quality_rating.quality]
    ELSE IF RLt(current_price, RMul(intrinsic_value, Pct(120)))
    THEN [rating |-> "FAIRLY_VALUED", discount |-> discount, signal |-> "HOLD",
          upside_potential |-> upside, quality |-> quality_rating.quality]
    ELSE [rating |-> "OVERVALUED", discount |-> discount, signal |-> "AVOID",
          upside_potential |-> upside, quality |-> quality_rating.quality]

rate_bands(current_price, intrinsic_value, quality_rating, value_trap_analysis, value_with_mos, discount, upside) ==
    IF value_trap_analysis.is_trap
    THEN [rating |-> "VALUE_TRAP", discount |-> discount, signal |-> "AVOID",
          upside_potential |-> upside, quality |-> quality_rating.quality,
          warning |-> "High FCF yield with low ROE - unsustainable"]
    ELSE IF RLt(current_price, value_with_mos)
    THEN [rating |-> "SIGNIFICANTLY_UNDERVALUED", discount |-> discount,
          signal |-> "STRONG_BUY", upside_potential |-> upside,
          quality |-> quality_rating.quality]
    ELSE IF RLt(current_price, intrinsic_value)
    THEN [rating |-> "UNDERVALUED", discount |-> discount, signal |-> "BUY",
          upside_potential |-> upside, quality |-> quality_rating.quality]
    ELSE IF RLt(current_price, RMul(intrinsic_value, Pct(115)))
    THEN [rating |-> "FAIRLY_VALUED", discount |-> discount, signal |-> "HOLD",
          upside_potential |-> upside, quality |-> quality_rating.quality]
    ELSE [rating |-> "OVERVALUED", discount |-> discount, signal |-> "AVOID",
          upside_potential |-> upside, quality |-> quality_rating.quality]

rate_valuation(current_price, intrinsic_value, quality_rating, value_trap_analysis) ==
    IF RLe(intrinsic_value, Zero)
    THEN [rating |-> "UNABLE_TO_CALCULATE", discount |-> Zero, signal |-> "SKIP"]
    ELSE CHOOSE r \in
           {rate_bands(current_price, intrinsic_value, quality_rating,
                       value_trap_analysis, value_with_mos, discount, upside) :
              value_with_mos \in
                {RMul(intrinsic_value, RSub(One, quality_rating.margin_of_safety))},
              discount \in
                {RMul(RSub(One, RDiv(current_price, intrinsic_value)), R(100))},
              upside \in
                {IF RGt(current_price, Zero)
                 THEN RMul(RSub(RDiv(intrinsic_value, current_price), One), R(100))
                 ELSE Zero}} : TRUE

\* lines 552-593 of ValuationCalculator.analyze_stock, with the metrics, the
\* growth rate g and the intrinsic value computed
analysis_record(ticker, current_price, operating_cash_flow, capex, fcf, fcf_per_share, roe, roic, g, sector, wacc, intrinsic_value) ==
    CHOOSE r \in
      {[ticker |-> ticker,
        current_price |-> current_price,
        metrics |-> [fcf |-> fcf, fcf_per_share |-> fcf_per_share, roe |-> roe,
                     roic |-> roic, operating_cash_flow |-> operating_cash_flow,
                     capex |-> capex],
        valuation |-> [intrinsic_value |-> intrinsic_value,
                       value_with_margin_of_safety |->
                           RMul(intrinsic_value, RSub(One, quality_rating.margin_of_safety)),
                       wacc |-> wacc, growth_rate |-> g, sector |-> sector],
        quality |-> quality_rating,
        value_trap_flag |-> value_trap_analysis,
        assessment |-> rate_valuation(current_price, intrinsic_value,
                                      quality_rating, value_trap_analysis)] :
         quality_rating \in {calculate_quality_rating(roe, roic)},
         value_trap_analysis \in
           {detect_value_trap(roe, fcf_per_share, current_price, g)}} : TRUE

\* analysis_valued recording the growth rate as the DCF clamps it
analysis_valued_clamped_rate(ticker, current_price, operating_cash_flow, capex, fcf, fcf_per_share, roe, roic, growth_rate) ==
    CHOOSE r \in
      {CHOOSE r2 \in
         {analysis_record(ticker, current_price, operating_cash_flow, capex, fcf,
                          fcf_per_share, roe, roic, RMin(RMax(g, Zero), Pml(80)),
                          looked.sector, wacc, iv[1]) :
            iv \in {calculate_intrinsic_value(fcf_per_share, Some(ticker), Some(g),
                        Some(wacc), TERMINAL_GROWTH_DEFAULT, PROJECTION_YEARS_DEFAULT)}}
         : TRUE :
         looked \in {get_sector_growth_rate(ticker)},
         g \in {IF IsNone(growth_rate) THEN get_sector_growth_rate(ticker).growth
                ELSE Val(growth_rate)},
         wacc \in {DEFAULT_WACC}} : TRUE

\* lines 536-550, with the metrics computed: the growth rate and the intrinsic value
analysis_valued(ticker, current_price, operating_cash_flow, capex, fcf, fcf_per_share, roe, roic, growth_rate) ==
    CHOOSE r \in
      {CHOOSE r2 \in
         {analysis_record(ticker, current_price, operating_cash_flow, capex, fcf,
                          fcf_per_share, roe, roic, g, looked.sector, wacc, iv[1]) :
            iv \in {calculate_intrinsic_value(fcf_per_share, Some(ticker), Some(g),
                        Some(wacc), TERMINAL_GROWTH_DEFAULT, PROJECTION_YEARS_DEFAULT)}}
         : TRUE :
         looked \in {get_sector_growth_rate(ticker)},
         g \in {IF IsNone(growth_rate) THEN get_sector_growth_rate(ticker).growth
                ELSE Val(growth_rate)},
         wacc \in {DEFAULT_WACC}} : TRUE

\* ValuationCalculator.analyze_stock: the amounts are integers, current_price a
\* rational, operating_income, invested_capital and growth_rate optional
ValuationCalculator_analyze_stock(ticker, current_price, operating_cash_flow, capex, net_income, shareholders_equity, shares_outstanding, operating_income, invested_capital, growth_rate) ==
    CHOOSE r \in
      {analysis_valued(ticker, current_price, operating_cash_flow, capex, fcf,
                       calculate_fcf_per_share(fcf, shares_outstanding),
                       roe, roic, growth_rate) :
         fcf \in {calculate_free_cash_flow(operating_cash_flow, capex)},
         roe \in {calculate_roe(net_income, shareholders_equity)},
         roic \in {IF ~IsNone(operating_income) /\ Val(operating_income) # 0
                      /\ ~IsNone(invested_capital) /\ Val(invested_capital) # 0
                   THEN Some(calculate_roic(
                            estimate_nopat(Val(operating_income), DEFAULT_TAX_RATE),
                            Val(invested_capital)))
                   ELSE NoneVal}} : TRUE

(***************************************************************************)
(* StockRecommender                                                        *)
(***************************************************************************)
\* what DataFetcher.get_metrics gives the Recommender for one ticker: nothing,
\* an exception, or a metrics dictionary
Absent == [kind |-> "absent"]

Raises == [kind |-> "raise"]

Metrics(price, shares, ocf, capex, ni, equity, oi, ic) ==
    [kind |-> "metrics", current_price |-> price, shares_outstanding |-> shares,
     operating_cash_flow |-> ocf, capex |-> capex, net_income |-> ni,
     total_equity |-> equity, operating_income |-> oi, invested_capital |-> ic]

\* trap_path_score with the penalty taken off the initial score of 0 instead of
\* off the base score
trap_path_penalty(analysis) ==
    RNeg(RMul(R(20), analysis.value_trap_flag.trap_score))

\* lines 106-114: the value-trap path
trap_path_score(analysis) ==
    LET base_score == R(20)
        trap_score == analysis.value_trap_flag.trap_score
    IN  RMax(Zero, RMul(base_score, RSub(One, trap_score)))

\* signal_bonus with the 5 points of HOLD given in the else branch
signal_bonus_else_hold(signal) ==
    IF signal = "STRONG_BUY" THEN 20
    ELSE IF signal = "BUY" THEN 15
    ELSE 5

signal_bonus(signal) ==
    IF signal = "STRONG_BUY" THEN 20
    ELSE IF signal = "BUY" THEN 15
    ELSE IF signal = "HOLD" THEN 5
    ELSE 0

\* lines 134-141: FCF sustainability of an exceptional business
exceptional_fcf_bonus(fcf_yield) ==
    IF RLe(R(3), fcf_yield) /\ RLe(fcf_yield, R(10)) THEN 25
    ELSE IF (RLt(R(2), fcf_yield) /\ RLt(fcf_yield, R(3)))
            \/ (RLt(R(10), fcf_yield) /\ RLe(fcf_yield, R(15))) THEN 15
    ELSE IF RLe(fcf_yield, R(2)) THEN 5
    ELSE 0

\* discount_score with the range (15, 25) dropped from the second test
discount_score_gap(discount) ==
    IF RLe(R(25), discount) /\ RLe(discount, R(60)) THEN 30
    ELSE IF RLt(R(60), discount) /\ RLe(discount, R(80)) THEN 20
    ELSE IF RLt(Zero, discount) /\ RLe(discount, R(15)) THEN 10
    ELSE IF RGt(discount, R(80)) THEN 5
    ELSE 0

\* discount_score with the bucket (15, 25) closed at 15 and tested first
discount_score_overlap(discount) ==
    IF (RLe(R(15), discount) /\ RLt(discount, R(25)))
       \/ (RLt(R(60), discount) /\ RLe(discount, R(80))) THEN 20
    ELSE IF RLe(R(25), discount) /\ RLe(discount, R(60)) THEN 30
    ELSE IF RLt(Zero, discount) /\ RLe(discount, R(15)) THEN 10
    ELSE IF RGt(discount, R(80)) THEN 5
    ELSE 0

\* lines 167-182
discount_score(discount) ==
    IF RLe(R(25), discount) /\ RLe(discount, R(60)) THEN 30
    ELSE IF (RLt(R(15), discount) /\ RLt(discount, R(25)))
            \/ (RLt(R(60), discount) /\ RLe(discount, R(80))) THEN 20
    ELSE IF RLt(Zero, discount) /\ RLe(discount, R(15)) THEN 10
    ELSE IF RGt(discount, R(80)) THEN 5
    ELSE 0

\* exceptional_path_score with the valuation discount counted as on the normal path
exceptional_path_score_with_discount(analysis) ==
    LET score == 35 + signal_bonus(analysis.assessment.signal)
                    + exceptional_fcf_bonus(analysis.quality_metrics.fcf_yield)
                    + discount_score(analysis.assessment.discount)
    IN  RMin(R(score), R(100))

\* lines 116-143: the exceptional-quality path
exceptional_path_score(analysis) ==
    LET score == 35 + signal_bonus(analysis.assessment.signal)
                    + exceptional_fcf_bonus(analysis.quality_metrics.fcf_yield)
    IN  RMin(R(score), R(100))

\* quality_score with the points of the buckets >= 20 and >= 15 exchanged
quality_score_swapped(roe, roic) ==
    LET primary_return == IF ~IsNone(roic) /\ Val(roic).n # 0 THEN Val(roic) ELSE roe
    IN  IF RGe(primary_return, R(25)) THEN 30
        ELSE IF RGe(primary_return, R(20)) THEN 22
        ELSE IF RGe(primary_return, R(15)) THEN 28
        ELSE IF RGe(primary_return, R(12)) THEN 15
        ELSE IF RGe(primary_return, R(8)) THEN 8
        ELSE 2

\* lines 147-165
quality_score(roe, roic) ==
    LET primary_return == IF ~IsNone(roic) /\ Val(roic).n # 0 THEN Val(roic) ELSE roe
    IN  IF RGe(primary_return, R(25)) THEN 30
        ELSE IF RGe(primary_return, R(20)) THEN 28
        ELSE IF RGe(primary_return, R(15)) THEN 22
        ELSE IF RGe(primary_return, R(12)) THEN 15
        ELSE IF RGe(primary_return, R(8)) THEN 8
        ELSE 2

\* lines 195-210
fcf_score(fcf_yield) ==
    IF RLe(R(3), fcf_yield) /\ RLe(fcf_yield, R(8)) THEN 20
    ELSE IF (RLt(R(2), fcf_yield) /\ RLt(fcf_yield, R(3)))
            \/ (RLt(R(8), fcf_yield) /\ RLe(fcf_yield, R(12))) THEN 12
    ELSE IF RLe(fcf_yield, R(2)) THEN 5
    ELSE IF RGt(fcf_yield, R(12)) THEN 3
    ELSE 0

\* lines 145-212: the normal path
normal_path_score(analysis) ==
    LET score == quality_score(analysis.quality_metrics.roe_percent,
                               analysis.quality_metrics.roic_percent)
                 + discount_score(analysis.assessment.discount)
                 + signal_bonus(analysis.assessment.signal)
                 + fcf_score(analysis.quality_metrics.fcf_yield)
    IN  RMin(R(score), R(100))

\* _calculate_score with the exceptional-quality test ahead of the value-trap test
_calculate_score_exceptional_first(analysis, is_value_trap, exceptional_quality) ==
    IF exceptional_quality THEN exceptional_path_score(analysis)
    ELSE IF is_value_trap THEN trap_path_score(analysis)
    ELSE normal_path_score(analysis)

_calculate_score(analysis, is_value_trap, exceptional_quality) ==
    IF is_value_trap THEN trap_path_score(analysis)
    ELSE IF exceptional_quality THEN exceptional_path_score(analysis)
    ELSE normal_path_score(analysis)

\* lines 65-73: the quality_metrics of analysis a
quality_metrics(a, metrics) ==
    [fcf_yield |-> IF metrics.current_price > 0
                   THEN RMul(RDiv(a.metrics.fcf_per_share, R(metrics.current_price)), R(100))
                   ELSE Zero,
     pe_ratio |-> IF metrics.net_income > 0
                  THEN RDiv(R(metrics.current_price),
                            Q(metrics.net_income, metrics.shares_outstanding))
                  ELSE Zero,
     roe_percent |-> RMul(a.metrics.roe, R(100)),
     roic_percent |-> IF ~IsNone(a.metrics.roic) /\ Val(a.metrics.roic).n # 0
                      THEN Some(RMul(Val(a.metrics.roic), R(100)))
                      ELSE NoneVal]

\* lines 75-88: the analysis b with its quality_metrics gets its score
scored(b) ==
    b @@ [recommendation_score |->
             _calculate_score(b, b.value_trap_flag.is_trap,
                              b.quality.quality = "EXCEPTIONAL")]

\* StockRecommender.analyze_stock on the provider's outcome for the ticker:
\* <<>> is None, <<analysis>> an analysis.  Every exception is caught (line 89);
\* the one the code can raise is the division by net_income / shares_outstanding
\* of pe_ratio when shares_outstanding is 0.
StockRecommender_analyze_stock(ticker, metrics) ==
    IF metrics.kind # "metrics" THEN NoneVal
    ELSE IF metrics.operating_cash_flow <= 0 \/ metrics.net_income <= 0
            \/ metrics.total_equity <= 0 THEN NoneVal
    ELSE IF metrics.shares_outstanding = 0 THEN NoneVal
    ELSE CHOOSE r \in
           {CHOOSE r2 \in {Some(scored(b)) : b \in {a @@ [quality_metrics |-> quality_metrics(a, metrics)]}} : TRUE :
              a \in {ValuationCalculator_analyze_stock(ticker, R(metrics.current_price),
                        metrics.operating_cash_flow, metrics.capex, metrics.net_income,
                        metrics.total_equity, metrics.shares_outstanding,
                        metrics.operating_income, metrics.invested_capital, NoneVal)}}
           : TRUE

\* one row of the DataFrame; the columns that only format a number for display
\* (Price, Discount, Score, ...) are left out, the keys they read are not
dataframe_row(analysis) ==
    [Ticker |-> analysis.ticker,
     discount_percent |-> analysis.assessment.discount,
     Upside |-> analysis.assessment.upside_potential,
     Rating |-> IF analysis.value_trap_flag.is_trap THEN "VALUE_TRAP"
                ELSE analysis.assessment.rating,
     Signal |-> analysis.assessment.signal,
     Quality |-> analysis.quality.quality,
     Sector |-> analysis.valuation.sector,
     recommendation_score |-> analysis.recommendation_score]

\* the rows, or the KeyError raised when an analysis lacks a key a row reads
_analyses_to_dataframe(as) ==
    IF \E i \in 1..Len(as) : "upside_potential" \notin DOMAIN as[i].assessment
    THEN [raised |-> TRUE, rows |-> <<>>]
    ELSE [raised |-> FALSE, rows |-> [i \in 1..Len(as) |-> dataframe_row(as[i])]]

\* sorts_before with ascending=[False, True]
sorts_before_discount_ascending(x, y) ==
    \/ RGt(x.recommendation_score, y.recommendation_score)
    \/ /\ ~RLt(x.recommendation_score, y.recommendation_score)
       /\ RLt(x.discount_percent, y.discount_percent)

\* row x sorts before row y: ascending=[False, False] on
\* (recommendation_score, discount_percent)
sorts_before(x, y) ==
    \/ RGt(x.recommendation_score, y.recommendation_score)
    \/ /\ ~RLt(x.recommendation_score, y.recommendation_score)
       /\ RGt(x.discount_percent, y.discount_percent)

\* x goes after every row that does not sort after it (the sort is stable)
RECURSIVE insert_row(_, _)
insert_row(sorted, x) ==
    IF sorted = <<>> THEN <<x>>
    ELSE IF sorts_before(x, Head(sorted)) THEN <<x>> \o sorted
    ELSE <<Head(sorted)>> \o insert_row(Tail(sorted), x)

RECURSIVE sort_values(_)
sort_values(df) ==
    IF df = <<>> THEN <<>>
    ELSE insert_row(sort_values(SubSeq(df, 1, Len(df) - 1)), df[Len(df)])

\* DataFrame.head(n)
head(df, n) ==
    IF n >= 0 THEN SubSeq(df, 1, IF n < Len(df) THEN n ELSE Len(df))
    ELSE SubSeq(df, 1, IF Len(df) + n > 0 THEN Len(df) + n ELSE 0)

\* lines 241-252 of analyze_universe, after the loop: the table returned, or
\* the exception that leaves analyze_universe
rank(as, n) ==
    LET df == _analyses_to_dataframe(as)
    IN  IF df.raised THEN df
        ELSE IF Len(df.rows) = 0 THEN df
        ELSE [raised |-> FALSE, rows |-> head(sort_values(df.rows), n)]

(***************************************************************************)
(* DataFetcher: an info dictionary is the set of its <<key, value>> items, *)
(* stock_cache a function from the cached tickers to their infos           *)
(***************************************************************************)
\* the dictionary {} 
EmptyDict == [t \in {} |-> {}]

\* d[k] = v
SetItem(d, k, v) == [t \in DOMAIN d \cup {k} |-> IF t = k THEN v ELSE d[t]]

\* get_stock_info that stores the info whether or not the cache is enabled
get_stock_info_always_stores(enabled, cache, ticker, force_refresh, outcome) ==
    IF enabled /\ ticker \in DOMAIN cache /\ ~force_refresh
    THEN [info |-> cache[ticker], stock_cache |-> cache,
          contacted |-> FALSE, raised |-> FALSE]
    ELSE IF outcome.raised
    THEN [info |-> {}, stock_cache |-> cache, contacted |-> TRUE, raised |-> TRUE]
    ELSE [info |-> outcome.info,
          stock_cache |-> SetItem(cache, ticker, outcome.info),
          contacted |-> TRUE, raised |-> FALSE]

\* DataFetcher.get_stock_info on a fetcher with the given cache_enabled and
\* stock_cache; outcome is what yf.Ticker(ticker).info does if it is reached:
\* it raises or gives an info.  The result is the info returned, the
\* stock_cache afterwards, whether the provider was contacted and whether it raised.
get_stock_info(enabled, cache, ticker, force_refresh, outcome) ==
    IF enabled /\ ticker \in DOMAIN cache /\ ~force_refresh
    THEN [info |-> cache[ticker], stock_cache |-> cache,
          contacted |-> FALSE, raised |-> FALSE]
    ELSE IF outcome.raised
    THEN [info |-> {}, stock_cache |-> cache, contacted |-> TRUE, raised |-> TRUE]
    ELSE [info |-> outcome.info,
          stock_cache |-> IF enabled THEN SetItem(cache, ticker, outcome.info)
                          ELSE cache,
          contacted |-> TRUE, raised |-> FALSE]

\* the numbers the provider gives: an amount, or the NaN a statement holds
\* where it has no value
Num(v) == [nan |-> FALSE, v |-> v]

NaN == [nan |-> TRUE, v |-> 0]

\* dict.get(k, 0) on a dictionary kept as a set of <<key, value>> pairs; a
\* missing value (None) stands as 0, which the code reads it as
Get(d, k) ==
    IF \E e \in d : e[1] = k THEN (CHOOSE e \in d : e[1] = k)[2] ELSE Num(0)

\* Python's `a or b` on numbers: NaN is truthy
Or(a, b) == IF a.nan \/ a.v # 0 THEN a ELSE b

\* x <= 0, which is False on NaN
LeZero(x) == ~x.nan /\ x.v <= 0

\* abs(x)
AbsNum(x) == IF x.nan THEN x ELSE Num(Abs(x.v))

\* DataFetcher.get_financial_statements as the provider lets it end: {} after
\* an exception or a missing statement, else the three statements, each kept
\* as the rows of its latest column
NoStatements == [fetched |-> FALSE]

Statements(cash_flow, income_stmt, balance_sheet) ==
    [fetched |-> TRUE, cash_flow |-> cash_flow, income_stmt |-> income_stmt,
     balance_sheet |-> balance_sheet]

\* lines 129-175: the amounts read from the statements, 0 where none is read
statement_amounts(financials) ==
    IF ~financials.fetched
    THEN [operating_cash_flow |-> Num(0), capex |-> Num(0), net_income |-> Num(0),
          total_equity |-> Num(0)]
    ELSE [operating_cash_flow |->
              Or(Get(financials.cash_flow, "Operating Cash Flow"),
                 Or(Get(financials.cash_flow, "Net Cash From Operating Activities"), Num(0))),
          capex |->
              AbsNum(Or(Get(financials.cash_flow, "Capital Expenditures"),
                     Or(Get(financials.cash_flow,
                            "Purchases of Property Plant and Equipment"), Num(0)))),
          net_income |->
              Or(Get(financials.income_stmt, "Net Income"),
                 Or(Get(financials.income_stmt, "Net Income Common Stockholders"),
                    Or(Get(financials.income_stmt,
                           "Net Income From Continuing Operation Net Minority Interest"),
                       Num(0)))),
          total_equity |->
              Or(Get(financials.balance_sheet, "Stockholders Equity"),
                 Or(Get(financials.balance_sheet, "Common Stock Equity"),
                    Or(Get(financials.balance_sheet,
                           "Total Equity Gross Minority Interest"), Num(0))))]

\* lines 188-198: the metrics dictionary
metrics_record(ticker, current_price, shares_outstanding, operating_cash_flow, capex, free_cash_flow, net_income, total_equity) ==
    [ticker |-> ticker, current_price |-> current_price,
     shares_outstanding |-> shares_outstanding,
     operating_cash_flow |-> operating_cash_flow, capex |-> capex,
     free_cash_flow |-> free_cash_flow, net_income |-> net_income,
     total_equity |-> total_equity, growth_rate |-> Pct(6)]

\* DataFetcher.extract_metrics: None as <<>>, the metrics as <<metrics>>
extract_metrics(ticker, info, financials) ==
    LET st == statement_amounts(financials)
        current_price == Or(Get(info, "currentPrice"), Get(info, "regularMarketPrice"))
        shares_outstanding == Get(info, "sharesOutstanding")
        operating_cash_flow == Or(Or(Get(info, "operatingCashflow"), Num(0)),
                                  st.operating_cash_flow)
        capex == Or(Or(Get(info, "capitalExpenditures"), Num(0)), st.capex)
        free_cash_flow == Or(Get(info, "freeCashflow"), Num(0))
    IN  IF LeZero(current_price) \/ LeZero(shares_outstanding)
           \/ LeZero(operating_cash_flow) \/ LeZero(st.net_income)
           \/ LeZero(st.total_equity)
        THEN NoneVal
        ELSE Some(metrics_record(ticker, current_price, shares_outstanding,
                                 operating_cash_flow, capex, free_cash_flow,
                                 st.net_income, st.total_equity))

\* lines 219-229 of get_metrics, the call r of get_stock_info made
get_metrics_fetched(enabled, data, ticker, r, financials) ==
    IF r.info = {}
    THEN [metrics |-> NoneVal, stock_cache |-> r.stock_cache, data_cache |-> data,
          info_call |-> Some(r), statements_contacted |-> FALSE]
    ELSE LET metrics == extract_metrics(ticker, r.info, financials)
         IN  [metrics |-> metrics, stock_cache |-> r.stock_cache,
              data_cache |-> IF enabled /\ ~IsNone(metrics)
                             THEN SetItem(data, ticker, Val(metrics)) ELSE data,
              info_call |-> Some(r), statements_contacted |-> TRUE]

\* DataFetcher.get_metrics on a fetcher with the given cache_enabled,
\* stock_cache and data_cache; outcome is what the provider does where it is
\* reached.  The result is the metrics returned, the two caches afterwards,
\* the call of get_stock_info if one was made and whether the statements were
\* fetched.
get_metrics(enabled, stock, data, ticker, force_refresh, outcome) ==
    IF enabled /\ ticker \in DOMAIN data /\ ~force_refresh
    THEN [metrics |-> Some(data[ticker]), stock_cache |-> stock, data_cache |-> data,
          info_call |-> NoneVal, statements_contacted |-> FALSE]
    ELSE CHOOSE m \in
           {get_metrics_fetched(enabled, data, ticker, r, outcome.financials) :
              r \in {get_stock_info(enabled, stock, ticker, force_refresh,
                                    [raised |-> outcome.raised, info |-> outcome.info])}}
           : TRUE

FetcherTickers == {"TEST", "XYZ"}

\* what the provider may answer: an exception, an empty info, an info
ProviderOutcomes ==
    {[raised |-> TRUE, info |-> {}]} \cup
    {[raised |-> FALSE, info |-> i] :
        i \in {{}, {<<"currentPrice", Num(100)>>}, {<<"currentPrice", Num(101)>>}}}

\* an info with the keys extract_metrics reads
FullInfo(price) ==
    {<<"currentPrice", Num(price)>>, <<"sharesOutstanding", Num(1000)>>,
     <<"operatingCashflow", Num(10000)>>, <<"capitalExpenditures", Num(2000)>>}

\* statements with a net income and an equity
IncomeAndEquity(net_income, total_equity) ==
    Statements({<<"Operating Cash Flow", Num(10000)>>,
                <<"Capital Expenditures", Num(-2000)>>},
               {<<"Net Income", net_income>>},
               {<<"Stockholders Equity", total_equity>>})

\* what the provider may answer to get_metrics: the info raises, is empty or
\* is given, and the statements fail or are given
MetricsOutcomes ==
    {[raised |-> TRUE, info |-> {}, financials |-> NoStatements],
     [raised |-> FALSE, info |-> {}, financials |-> NoStatements],
     [raised |-> FALSE, info |-> FullInfo(100), financials |-> NoStatements],
     [raised |-> FALSE, info |-> FullInfo(100),
      financials |-> IncomeAndEquity(Num(5000), Num(50000))],
     [raised |-> FALSE, info |-> FullInfo(100),
      financials |-> IncomeAndEquity(Num(0), Num(50000))],
     [raised |-> FALSE, info |-> FullInfo(100),
      financials |-> IncomeAndEquity(NaN, Num(50000))]}

\* DataFetcher.__init__ but for cache_enabled: empty caches, no call made
FetcherFresh ==
    /\ stock_cache = EmptyDict
    /\ data_cache = EmptyDict
    /\ contacts = [t \in FetcherTickers |-> 0]
    /\ history = <<>>
    /\ metrics_history = <<>>

\* the fetcher of the runs that do not call it
FetcherIdle == cache_enabled = TRUE /\ FetcherFresh

(***************************************************************************)
(* analyze_universe as a process: one step per ticker of the loop (each    *)
(* waits on the provider), one step for the ranking after the loop         *)
(***************************************************************************)
MaxTickers == 2

MaxTopN == 2

UniverseTickers == {"T", "XYZ"}

RECURSIVE SeqsUpTo(_, _)
SeqsUpTo(S, n) ==
    IF n = 0 THEN {<<>>}
    ELSE LET shorter == SeqsUpTo(S, n - 1)
         IN  shorter \cup {Append(q, x) : q \in {r \in shorter : Len(r) = n - 1}, x \in S}

\* what the provider may answer in a batch run
UniverseOutcomes ==
    { Absent, Raises,
      Metrics(50, 1000, 0, 2000, 5000, 50000, NoneVal, NoneVal),
      Metrics(50, 1000, 10000, 2000, 0, 50000, NoneVal, NoneVal),
      Metrics(50, 1000, 10000, 2000, 5000, -1, NoneVal, NoneVal),
      Metrics(0, 1000, 10000, 2000, 5000, 50000, NoneVal, NoneVal),
      Metrics(50, 0, 10000, 2000, 5000, 50000, NoneVal, NoneVal),
      Metrics(50, 1000, 10000, 12000, 5000, 50000, NoneVal, NoneVal),
      Metrics(50, 1000, 10000, 2000, 5000, 50000, NoneVal, NoneVal),
      Metrics(100, 1000, 10000, 2000, 5000, 50000, NoneVal, NoneVal),
      Metrics(110, 1000, 10000, 2000, 5000, 50000, NoneVal, NoneVal),
      Metrics(300, 1000, 10000, 2000, 5000, 50000, NoneVal, NoneVal),
      Metrics(100, 1000, 10000, 2000, 25000, 50000, Some(30000), Some(40000)) }

Init ==
    /\ pc = "idle"
    /\ tickers = <<>>
    /\ top_n = 0
    /\ idx = 1
    /\ fetched = <<>>
    /\ analyses = <<>>
    /\ table = <<>>
    /\ op = "none"
    /\ arg = <<>>
    /\ ret = <<>>
    /\ FetcherIdle

\* a call of analyze_universe that starts on the list of the call before
AnalyzeUniverseStart_no_reset ==
    /\ pc \in {"idle", "done", "raised"}
    /\ \E ts \in SeqsUpTo(UniverseTickers, MaxTickers), n \in 0..MaxTopN :
          /\ tickers' = ts
          /\ top_n' = n
    /\ idx' = 1
    /\ fetched' = <<>>
    /\ table' = <<>>
    /\ pc' = "loop"
    /\ UNCHANGED <<analyses, op, arg, ret, fetcher_vars>>

\* lines 225-228: a call of analyze_universe starts
AnalyzeUniverseStart ==
    /\ pc \in {"idle", "done", "raised"}
    /\ \E ts \in SeqsUpTo(UniverseTickers, MaxTickers), n \in 0..MaxTopN :
          /\ tickers' = ts
          /\ top_n' = n
    /\ analyses' = <<>>
    /\ idx' = 1
    /\ fetched' = <<>>
    /\ table' = <<>>
    /\ pc' = "loop"
    /\ UNCHANGED <<op, arg, ret, fetcher_vars>>

\* lines 230-237: one iteration of the loop
AnalyzeTicker ==
    /\ pc = "loop"
    /\ idx <= Len(tickers)
    /\ \E m \in UniverseOutcomes :
          LET analysis == StockRecommender_analyze_stock(tickers[idx], m)
          IN  /\ analyses' = IF IsNone(analysis) THEN analyses
                              ELSE Append(analyses, Val(analysis))
              /\ fetched' = Append(fetched, m)
    /\ idx' = idx + 1
    /\ UNCHANGED <<pc, tickers, top_n, table, op, arg, ret, fetcher_vars>>

\* lines 239-252: the loop is over, the table is built, sorted and cut
AnalyzeUniverseReturn ==
    /\ pc = "loop"
    /\ idx > Len(tickers)
    /\ LET r == rank(analyses, top_n)
       IN  /\ pc' = IF r.raised THEN "raised" ELSE "done"
           /\ table' = r.rows
    /\ UNCHANGED <<tickers, top_n, idx, fetched, analyses, op, arg, ret, fetcher_vars>>

Next == AnalyzeUniverseStart \/ AnalyzeTicker \/ AnalyzeUniverseReturn

Spec == Init /\ [][Next]_vars

(***************************************************************************)
(* Direct calls: one call of one operation on inputs drawn by the initial  *)
(* state, the result kept in ret (<<>> until the call has returned)        *)
(***************************************************************************)
MaxRatePrice == 130

\* the six quality ratings calculate_quality_rating can return
QualityRatings ==
    { calculate_quality_rating(Pct(p), NoneVal) : p \in {45, 25, 20, 15, 10, 8, 5} }

RateInputs ==
    [ current_price : {R(p) : p \in -1..MaxRatePrice},
      intrinsic_value : {R(-5), Zero, R(40), R(100)},
      quality_rating : QualityRatings,
      value_trap_analysis : {[is_trap |-> b] : b \in BOOLEAN} ]

CalcTickers == {"T", "V", "XYZ", "jnj", "AAPL", "PYPL", "META"}

CalcInputs ==
    [ ticker : CalcTickers,
      current_price : {R(p) : p \in {0, 10, 50, 100}}
                        \cup {Q(648, 5)},
      operating_cash_flow : {10000},
      capex : {2000, 9000, 12000},
      net_income : {-100, 4000, 25000},
      shareholders_equity : {0, 50000},
      shares_outstanding : {-1, 0, 100, 1000},
      returns : {<<NoneVal, NoneVal>>, <<Some(30000), Some(40000)>>, <<Some(3000), Some(-1)>>,
                 <<Some(-3000), Some(40000)>>},
      growth_rate : {NoneVal, Some(Pct(-1)), Some(Pct(3)), Some(Pct(6)), Some(Pct(12))} ]
    \cup
    \* prices on the band boundaries of the intrinsic value 8 * 1.08 / (1/15 + 0.01)
    [ ticker : {"AAPL", "V"},
      current_price : {Q(1296, 23), Q(2592, 23), R(120)},
      operating_cash_flow : {10000},
      capex : {2000},
      net_income : {-100, 4000, 25000},
      shareholders_equity : {0, 50000},
      shares_outstanding : {1000},
      returns : {<<NoneVal, NoneVal>>, <<Some(30000), Some(40000)>>},
      growth_rate : {NoneVal} ]

RecTickers == {"T", "V", "XYZ"}

RecOutcomes ==
    {Absent, Raises} \cup
    { Metrics(price, shares, ocf, capex, ni, equity, r[1], r[2]) :
        price \in {-5, 0, 20, 50, 100, 300}, shares \in {-1, 0, 1000},
        ocf \in {0, 10000}, capex \in {2000, 9500, 12000},
        ni \in {0, 600, 5000, 25000}, equity \in {0, 50000},
        r \in {<<NoneVal, NoneVal>>, <<Some(30000), Some(40000)>>,
               <<Some(-3000), Some(40000)>>, <<Some(3000), Some(-1)>>,
               <<Some(0), Some(40000)>>, <<Some(30000), NoneVal>>} }

RecInputs == [ticker : RecTickers, metrics : RecOutcomes]

\* the analysis dictionaries handed to _calculate_score directly, with the keys it reads
ScoreInputs ==
    [ ticker : {"TEST"},
      value_trap_flag : {[is_trap |-> FALSE, trap_score |-> Zero],
                         [is_trap |-> TRUE, trap_score |-> Pct(60)],
                         [is_trap |-> TRUE, trap_score |-> Pct(70)],
                         [is_trap |-> TRUE, trap_score |-> One]},
      exceptional_quality : BOOLEAN,
      quality_metrics :
          [ roe_percent : {R(p) : p \in {7, 8, 11, 12, 15, 19, 20, 24, 25, 45}},
            roic_percent : {NoneVal, Some(Zero), Some(R(13))},
            fcf_yield : {Zero, R(2), Q(5, 2), R(3), R(8), R(10), R(12), R(13), R(15), R(16)} ],
      assessment :
          [ discount : {R(-20), Zero, Q(1, 2), R(15), R(20), R(25), R(60), R(70), R(80), R(81)},
            signal : {"STRONG_BUY", "BUY", "HOLD", "AVOID", "SKIP"} ] ]

\* two analyses that differ in one key only: the first, the key and the
\* value the second has under that key
ScorePairFirsts ==
    [ ticker : {"TEST"},
      value_trap_flag : {[is_trap |-> FALSE, trap_score |-> Zero],
                         [is_trap |-> TRUE, trap_score |-> Pct(60)]},
      exceptional_quality : BOOLEAN,
      quality_metrics :
          [ roe_percent : {R(p) : p \in {7, 8, 12, 15, 20, 25, 45}},
            roic_percent : {NoneVal, Some(Zero), Some(R(13))},
            fcf_yield : {R(2), R(8)} ],
      assessment :
          [ discount : {R(-20), Zero, Q(1, 2), R(15), R(20), R(25), R(60), R(70), R(80), R(81)},
            signal : {"BUY"} ] ]

ScorePairKeys == {"discount", "roe_percent", "roic_percent"}

ScorePairValues ==
    {R(-20), Zero, Q(1, 2), R(7), R(8), R(12), R(15), R(20), R(25), R(45),
     R(60), R(70), R(80), R(81)}

ScorePairInputs == [first : ScorePairFirsts, key : ScorePairKeys, value : ScorePairValues]

\* the second analysis of a pair
second_analysis(first, key, value) ==
    IF key = "discount"
    THEN [first EXCEPT !.assessment.discount = value]
    ELSE IF key = "roe_percent"
    THEN [first EXCEPT !.quality_metrics.roe_percent = value]
    ELSE [first EXCEPT !.quality_metrics.roic_percent = Some(value)]

TrapInputs ==
    [ roe : {Pct(5), Pct(10), Pct(15)},
      fcf_per_share : {R(-1), Zero, R(5), R(10), R(11), R(15), R(16)},
      current_price : {R(-5), Zero, R(50), R(100)},
      growth_rate : {Pct(2), Pct(3), Pct(4)} ]

\* the returns calculate_quality_rating is called on: roe and the optional roic
ReturnInputs ==
    [ roe : {Pml(m) : m \in {50, 79, 80, 100, 150, 200, 250, 399, 400}},
      roic : {NoneVal, Some(Pct(-5)), Some(Zero), Some(Pct(9)), Some(Pct(30))} ]

QualityPairInputs == [first : ReturnInputs, second : ReturnInputs]

IntrinsicInputs ==
    [ fcf_per_share : {R(-1), Zero, R(5)},
      ticker : {NoneVal, Some(""), Some("V"), Some("XYZ")},
      growth_rate : {NoneVal, Some(Pct(-1)), Some(Pct(6)), Some(Pct(12))},
      wacc : {NoneVal, Some(Pct(-5)), Some(Pct(-1)), Some(Zero), Some(Pct(2)),
              Some(Pml(25)), Some(Pct(6)), Some(Pct(8))},
      terminal_growth_rate : {Pml(25), Pct(3)},
      projection_years : {5, PROJECTION_YEARS_DEFAULT} ]

\* the cash flows calculate_free_cash_flow is called on
FcfInputs ==
    [ operating_cash_flow : {-500, 0, 100, 200, 1000},
      capital_expenditures : {-100, 0, 200, 1000} ]

\* numerator and denominator of the ratio helpers
RatioInputs ==
    [ numerator : {-1000, 0, 800, 1000, 2370},
      denominator : {-10000, -1, 0, 3, 100, 10000} ]

UniverseIdle ==
    /\ pc = "idle"
    /\ tickers = <<>>
    /\ top_n = 0
    /\ idx = 1
    /\ fetched = <<>>
    /\ analyses = <<>>
    /\ table = <<>>

InitCall ==
    /\ UniverseIdle
    /\ FetcherIdle
    /\ ret = <<>>
    /\ \/ op = "rate_valuation" /\ arg \in RateInputs
       \/ op = "ValuationCalculator.analyze_stock" /\ arg \in CalcInputs
       \/ op = "StockRecommender.analyze_stock" /\ arg \in RecInputs
       \/ op = "_calculate_score" /\ arg \in ScoreInputs
       \/ op = "_calculate_score twice" /\ arg \in ScorePairInputs
       \/ op = "detect_value_trap" /\ arg \in TrapInputs
       \/ op = "calculate_quality_rating twice" /\ arg \in QualityPairInputs
       \/ op = "calculate_intrinsic_value" /\ arg \in IntrinsicInputs
       \/ op = "calculate_free_cash_flow" /\ arg \in FcfInputs
       \/ op = "calculate_fcf_per_share" /\ arg \in RatioInputs
       \/ op = "calculate_roe" /\ arg \in RatioInputs
       \/ op = "calculate_roic" /\ arg \in RatioInputs

CallRateValuation ==
    /\ op = "rate_valuation"
    /\ ret = <<>>
    /\ ret' = <<rate_valuation(arg.current_price, arg.intrinsic_value,
                               arg.quality_rating, arg.value_trap_analysis)>>
    /\ UNCHANGED <<pc, tickers, top_n, idx, fetched, analyses, table, op, arg, fetcher_vars>>

CallCalculatorAnalyzeStock ==
    /\ op = "ValuationCalculator.analyze_stock"
    /\ ret = <<>>
    /\ ret' = <<ValuationCalculator_analyze_stock(arg.ticker, arg.current_price,
                    arg.operating_cash_flow, arg.capex, arg.net_income,
                    arg.shareholders_equity, arg.shares_outstanding,
                    arg.returns[1], arg.returns[2], arg.growth_rate)>>
    /\ UNCHANGED <<pc, tickers, top_n, idx, fetched, analyses, table, op, arg, fetcher_vars>>

\* the result is <<None>> as <<<<>>>> or <<<<analysis>>>>
CallRecommenderAnalyzeStock ==
    /\ op = "StockRecommender.analyze_stock"
    /\ ret = <<>>
    /\ ret' = <<StockRecommender_analyze_stock(arg.ticker, arg.metrics)>>
    /\ UNCHANGED <<pc, tickers, top_n, idx, fetched, analyses, table, op, arg, fetcher_vars>>

CallCalculateScore ==
    /\ op = "_calculate_score"
    /\ ret = <<>>
    /\ ret' = <<_calculate_score(arg, arg.value_trap_flag.is_trap, arg.exceptional_quality)>>
    /\ UNCHANGED <<pc, tickers, top_n, idx, fetched, analyses, table, op, arg, fetcher_vars>>

\* _calculate_score on the first and on the second analysis of a pair
CallCalculateScoreTwice ==
    /\ op = "_calculate_score twice"
    /\ ret = <<>>
    /\ ret' = <<_calculate_score(arg.first, arg.first.value_trap_flag.is_trap,
                                 arg.first.exceptional_quality),
                _calculate_score(second_analysis(arg.first, arg.key, arg.value),
                                 arg.first.value_trap_flag.is_trap,
                                 arg.first.exceptional_quality)>>
    /\ UNCHANGED <<pc, tickers, top_n, idx, fetched, analyses, table, op, arg, fetcher_vars>>

CallDetectValueTrap ==
    /\ op = "detect_value_trap"
    /\ ret = <<>>
    /\ ret' = <<detect_value_trap(arg.roe, arg.fcf_per_share, arg.current_price,
                                  arg.growth_rate)>>
    /\ UNCHANGED <<pc, tickers, top_n, idx, fetched, analyses, table, op, arg, fetcher_vars>>

\* calculate_quality_rating on a first and on a second pair of returns
CallCalculateQualityRatingTwice ==
    /\ op = "calculate_quality_rating twice"
    /\ ret = <<>>
    /\ ret' = <<calculate_quality_rating(arg.first.roe, arg.first.roic),
                calculate_quality_rating(arg.second.roe, arg.second.roic)>>
    /\ UNCHANGED <<pc, tickers, top_n, idx, fetched, analyses, table, op, arg, fetcher_vars>>

\* the result is <<pair>> or <<ZeroDivisionError>>
CallCalculateIntrinsicValue ==
    /\ op = "calculate_intrinsic_value"
    /\ ret = <<>>
    /\ ret' = <<calculate_intrinsic_value(arg.fcf_per_share, arg.ticker,
                    arg.growth_rate, arg.wacc, arg.terminal_growth_rate,
                    arg.projection_years)>>
    /\ UNCHANGED <<pc, tickers, top_n, idx, fetched, analyses, table, op, arg, fetcher_vars>>

CallCalculateFreeCashFlow ==
    /\ op = "calculate_free_cash_flow"
    /\ ret = <<>>
    /\ ret' = <<calculate_free_cash_flow(arg.operating_cash_flow, arg.capital_expenditures)>>
    /\ UNCHANGED <<pc, tickers, top_n, idx, fetched, analyses, table, op, arg, fetcher_vars>>

CallCalculateFcfPerShare ==
    /\ op = "calculate_fcf_per_share"
    /\ ret = <<>>
    /\ ret' = <<calculate_fcf_per_share(arg.numerator, arg.denominator)>>
    /\ UNCHANGED <<pc, tickers, top_n, idx, fetched, analyses, table, op, arg, fetcher_vars>>

CallCalculateRoe ==
    /\ op = "calculate_roe"
    /\ ret = <<>>
    /\ ret' = <<calculate_roe(arg.numerator, arg.denominator)>>
    /\ UNCHANGED <<pc, tickers, top_n, idx, fetched, analyses, table, op, arg, fetcher_vars>>

CallCalculateRoic ==
    /\ op = "calculate_roic"
    /\ ret = <<>>
    /\ ret' = <<calculate_roic(R(arg.numerator), arg.denominator)>>
    /\ UNCHANGED <<pc, tickers, top_n, idx, fetched, analyses, table, op, arg, fetcher_vars>>

NextCall ==
    \/ CallRateValuation
    \/ CallCalculatorAnalyzeStock
    \/ CallRecommenderAnalyzeStock
    \/ CallCalculateScore
    \/ CallCalculateScoreTwice
    \/ CallDetectValueTrap
    \/ CallCalculateQualityRatingTwice
    \/ CallCalculateIntrinsicValue
    \/ CallCalculateFreeCashFlow
    \/ CallCalculateFcfPerShare
    \/ CallCalculateRoe
    \/ CallCalculateRoic

SpecCall == InitCall /\ [][NextCall]_vars

(***************************************************************************)
(* A DataFetcher in use: calls of get_stock_info, one after the other.     *)
(* contacts counts the uses of yf.Ticker per ticker, history keeps every   *)
(* call with what it returned                                              *)
(***************************************************************************)
MaxCalls == 3

MaxMetricsCalls == 2

InitFetcher ==
    /\ UniverseIdle
    /\ op = "none"
    /\ arg = <<>>
    /\ ret = <<>>
    /\ cache_enabled \in BOOLEAN
    /\ FetcherFresh

\* one call of get_stock_info, from entry to return
GetStockInfo ==
    /\ Len(history) < MaxCalls
    /\ \E ticker \in FetcherTickers, force_refresh \in BOOLEAN, outcome \in ProviderOutcomes :
          LET r == get_stock_info(cache_enabled, stock_cache, ticker, force_refresh, outcome)
          IN  /\ stock_cache' = r.stock_cache
              /\ contacts' = [contacts EXCEPT ![ticker] = @ + (IF r.contacted THEN 1 ELSE 0)]
              /\ history' = Append(history,
                                [ticker |-> ticker, force_refresh |-> force_refresh,
                                 raised |-> r.raised, info |-> r.info])
    /\ UNCHANGED <<pc, tickers, top_n, idx, fetched, analyses, table, op, arg, ret, cache_enabled,
                   data_cache, metrics_history>>

\* one call of get_metrics, from entry to return
GetMetrics ==
    /\ Len(metrics_history) < MaxMetricsCalls
    /\ Len(history) < MaxCalls
    /\ \E ticker \in FetcherTickers, force_refresh \in BOOLEAN, outcome \in MetricsOutcomes :
          LET m == get_metrics(cache_enabled, stock_cache, data_cache, ticker,
                               force_refresh, outcome)
              called == ~IsNone(m.info_call)
              contacted_info == called /\ Val(m.info_call).contacted
          IN  /\ stock_cache' = m.stock_cache
              /\ data_cache' = m.data_cache
              /\ contacts' = [contacts EXCEPT ![ticker] = @ + (IF contacted_info THEN 1 ELSE 0)]
              /\ history' = IF called
                            THEN Append(history,
                                   [ticker |-> ticker, force_refresh |-> force_refresh,
                                    raised |-> Val(m.info_call).raised,
                                    info |-> Val(m.info_call).info])
                            ELSE history
              /\ metrics_history' = Append(metrics_history,
                                       [ticker |-> ticker, force_refresh |-> force_refresh,
                                        metrics |-> m.metrics,
                                        contacted |-> contacted_info \/ m.statements_contacted])
    /\ UNCHANGED <<pc, tickers, top_n, idx, fetched, analyses, table, op, arg, ret, cache_enabled>>

NextFetcher == GetStockInfo \/ GetMetrics

SpecFetcher == InitFetcher /\ [][NextFetcher]_vars

(***************************************************************************)
(* Properties of analyze_universe, checked under Spec                      *)
(***************************************************************************)
\* the analyses of the current batch whose intrinsic value is <= 0
UnableIndexes ==
    {i \in 1..Len(analyses) : RLe(analyses[i].valuation.intrinsic_value, Zero)}

\* C1: for every ticker sequence and every outcome of the provider,
\* analyze_universe ends by returning a table: no exception that comes from one
\* ticker's analysis leaves analyze_universe, the other tickers are still ranked.
C1_BatchNeverRaises == pc # "raised"

\* C2: a ticker that passes the Recommender's validation and whose intrinsic
\* value is <= 0 is not dropped: once analyze_universe is over it has returned
\* a table and, when top_n admits every success, the ticker is a row of it with
\* signal SKIP, rating UNABLE_TO_CALCULATE and discount 0.
C2_UnableTickerIsARow ==
    (pc \in {"done", "raised"} /\ Len(analyses) <= top_n) =>
        \A i \in UnableIndexes :
            /\ pc = "done"
            /\ \E j \in 1..Len(table) :
                  /\ table[j].Ticker = analyses[i].ticker
                  /\ table[j].Signal = "SKIP"
                  /\ table[j].Rating = "UNABLE_TO_CALCULATE"
                  /\ table[j].discount_percent = Zero

\* the rows of the successes of the current batch, in input order
SuccessRows == [i \in 1..Len(analyses) |-> dataframe_row(analyses[i])]

Occurrences(rows, x) == Cardinality({i \in 1..Len(rows) : rows[i] = x})

\* row x ranks strictly above row y on (recommendation_score, discount_percent)
RanksAbove(x, y) ==
    \/ RLt(y.recommendation_score, x.recommendation_score)
    \/ /\ x.recommendation_score = y.recommendation_score
       /\ RLt(y.discount_percent, x.discount_percent)

\* C7: whenever analyze_universe returns a table, it has min(top_n, number of
\* successes) rows, each a row of a success; of two consecutive rows the earlier
\* has a strictly higher score, or an equal score and a discount at least as
\* large; and no omitted success ranks strictly above a returned row.
C7_TableIsTopOfRanking ==
    pc = "done" =>
        /\ Len(table) = (IF top_n < Len(analyses) THEN top_n ELSE Len(analyses))
        /\ \A j \in 1..Len(table) :
              Occurrences(table, table[j]) <= Occurrences(SuccessRows, table[j])
        /\ \A j \in 1..(Len(table) - 1) :
              \/ RLt(table[j + 1].recommendation_score, table[j].recommendation_score)
              \/ /\ table[j].recommendation_score = table[j + 1].recommendation_score
                 /\ RLe(table[j + 1].discount_percent, table[j].discount_percent)
        /\ \A i \in 1..Len(analyses), j \in 1..Len(table) :
              RanksAbove(SuccessRows[i], table[j]) =>
                  Occurrences(table, SuccessRows[i])
                      = Occurrences(SuccessRows, SuccessRows[i])

\* two successes of equal score, the second of the larger discount, come back
\* in the opposite order
C7_TieBrokenByDiscount ==
    /\ pc = "done"
    /\ Len(analyses) = 2
    /\ Len(table) = 2
    /\ SuccessRows[1].recommendation_score = SuccessRows[2].recommendation_score
    /\ RLt(SuccessRows[1].discount_percent, SuccessRows[2].discount_percent)
    /\ table = <<SuccessRows[2], SuccessRows[1]>>

(***************************************************************************)
(* Properties of single calls, checked under SpecCall                      *)
(***************************************************************************)
Returned(o) == op = o /\ Len(ret) = 1

\* the analysis StockRecommender.analyze_stock has returned, if it returned one
RecommenderAnalysis ==
    IF Returned("StockRecommender.analyze_stock") /\ ~IsNone(ret[1])
    THEN {Val(ret[1])} ELSE {}

\* C3: when the provider's inputs have any of current_price,
\* shares_outstanding, operating_cash_flow, net_income or shareholders' equity
\* <= 0, StockRecommender.analyze_stock returns None.
C3_NonPositiveFieldIsDropped ==
    (/\ Returned("StockRecommender.analyze_stock")
     /\ arg.metrics.kind = "metrics"
     /\ \/ arg.metrics.current_price <= 0
        \/ arg.metrics.shares_outstanding <= 0
        \/ arg.metrics.operating_cash_flow <= 0
        \/ arg.metrics.net_income <= 0
        \/ arg.metrics.total_equity <= 0)
    => IsNone(ret[1])

\* the analysis ValuationCalculator.analyze_stock has returned, directly or to
\* the Recommender
CalculatorAnalysis ==
    IF Returned("ValuationCalculator.analyze_stock") THEN {ret[1]}
    ELSE RecommenderAnalysis

\* C4: when ValuationCalculator.analyze_stock flags the analysis as a value
\* trap, the assessment is rating VALUE_TRAP with signal AVOID, never
\* UNABLE_TO_CALCULATE.
C4_TrapOverridesRating ==
    \A a \in CalculatorAnalysis :
        a.value_trap_flag.is_trap =>
            /\ a.assessment.rating = "VALUE_TRAP"
            /\ a.assessment.signal = "AVOID"
            /\ RGt(a.valuation.intrinsic_value, Zero)

\* a trap found on a growth rate given by the caller
C4_TrapAnalysed ==
    /\ Returned("ValuationCalculator.analyze_stock")
    /\ ~IsNone(arg.growth_rate)
    /\ ret[1].value_trap_flag.is_trap
    /\ ret[1].assessment.rating = "VALUE_TRAP"

\* the band of price p for intrinsic value v > 0 and margin of safety m, all
\* by integer cross-multiplication: v and p are integers, m is m.n / m.d
C5_Band(p, v, m) ==
    IF p * m.d < v * (m.d - m.n) THEN <<"STRONG_BUY", "SIGNIFICANTLY_UNDERVALUED">>
    ELSE IF p < v THEN <<"BUY", "UNDERVALUED">>
    ELSE IF 100 * p < 115 * v THEN <<"HOLD", "FAIRLY_VALUED">>
    ELSE <<"AVOID", "OVERVALUED">>

\* C5: for intrinsic_value > 0 and no trap, rate_valuation gives STRONG_BUY /
\* SIGNIFICANTLY_UNDERVALUED below value_with_mos, BUY / UNDERVALUED from there
\* to below intrinsic_value, HOLD / FAIRLY_VALUED from intrinsic_value to below
\* 1.15 * intrinsic_value, AVOID / OVERVALUED from there on, and
\* discount = (1 - price / intrinsic_value) * 100.
C5_FourBands ==
    (/\ Returned("rate_valuation")
     /\ arg.intrinsic_value.n > 0
     /\ ~arg.value_trap_analysis.is_trap)
    => /\ <<ret[1].signal, ret[1].rating>>
            = C5_Band(arg.current_price.n, arg.intrinsic_value.n,
                      arg.quality_rating.margin_of_safety)
       /\ ret[1].discount
            = Q((arg.intrinsic_value.n - arg.current_price.n) * 100,
                arg.intrinsic_value.n)

\* price == intrinsic_value is rated HOLD
C5_PriceAtIntrinsicValue ==
    /\ Returned("rate_valuation")
    /\ arg.intrinsic_value = R(100)
    /\ arg.current_price = R(100)
    /\ ~arg.value_trap_analysis.is_trap
    /\ ret[1].signal = "HOLD"
    /\ ret[1].discount = Zero

\* C6: the recommendation_score of every analysis StockRecommender.analyze_stock
\* produces is between 0 and 100, on each of the three scoring paths.
C6_ScoreInRange ==
    \A a \in RecommenderAnalysis :
        /\ RLe(Zero, a.recommendation_score)
        /\ RLe(a.recommendation_score, R(100))

\* a value trap scored above 0
C6_TrapScored ==
    \E a \in RecommenderAnalysis :
        /\ a.value_trap_flag.is_trap
        /\ RLt(Zero, a.recommendation_score)

\* what _calculate_score was called on and what it returned: a direct call, or
\* the call StockRecommender.analyze_stock makes on the analysis it returns
ScoreCalls ==
    IF Returned("_calculate_score")
    THEN {[analysis |-> arg, is_value_trap |-> arg.value_trap_flag.is_trap,
           exceptional_quality |-> arg.exceptional_quality, score |-> ret[1]]}
    ELSE {[analysis |-> a, is_value_trap |-> a.value_trap_flag.is_trap,
           exceptional_quality |-> (a.quality.quality = "EXCEPTIONAL"),
           score |-> a.recommendation_score] : a \in RecommenderAnalysis}

\* 1 when the condition holds, 0 when it does not
C8_In(b) == IF b THEN 1 ELSE 0

\* the points of the buckets x falls into, and the number of those buckets
C8_Q(x) ==
    [points |-> 30 * C8_In(RLe(R(25), x))
              + 28 * C8_In(RLe(R(20), x) /\ RLt(x, R(25)))
              + 22 * C8_In(RLe(R(15), x) /\ RLt(x, R(20)))
              + 15 * C8_In(RLe(R(12), x) /\ RLt(x, R(15)))
              + 8 * C8_In(RLe(R(8), x) /\ RLt(x, R(12)))
              + 2 * C8_In(RLt(x, R(8))),
     buckets |-> C8_In(RLe(R(25), x)) + C8_In(RLe(R(20), x) /\ RLt(x, R(25)))
               + C8_In(RLe(R(15), x) /\ RLt(x, R(20)))
               + C8_In(RLe(R(12), x) /\ RLt(x, R(15)))
               + C8_In(RLe(R(8), x) /\ RLt(x, R(12))) + C8_In(RLt(x, R(8)))]

C8_D(x) ==
    [points |-> 30 * C8_In(RLe(R(25), x) /\ RLe(x, R(60)))
              + 20 * C8_In(RLt(R(15), x) /\ RLt(x, R(25)))
              + 20 * C8_In(RLt(R(60), x) /\ RLe(x, R(80)))
              + 10 * C8_In(RLt(Zero, x) /\ RLe(x, R(15)))
              + 5 * C8_In(RLt(R(80), x)),
     buckets |-> C8_In(RLe(R(25), x) /\ RLe(x, R(60)))
               + C8_In(RLt(R(15), x) /\ RLt(x, R(25)))
               + C8_In(RLt(R(60), x) /\ RLe(x, R(80)))
               + C8_In(RLt(Zero, x) /\ RLe(x, R(15)))
               + C8_In(RLt(R(80), x)) + C8_In(RLe(x, Zero))]

C8_F(x) ==
    [points |-> 20 * C8_In(RLe(R(3), x) /\ RLe(x, R(8)))
              + 12 * C8_In(RLt(R(2), x) /\ RLt(x, R(3)))
              + 12 * C8_In(RLt(R(8), x) /\ RLe(x, R(12)))
              + 5 * C8_In(RLe(x, R(2)))
              + 3 * C8_In(RLt(R(12), x)),
     buckets |-> C8_In(RLe(R(3), x) /\ RLe(x, R(8)))
               + C8_In(RLt(R(2), x) /\ RLt(x, R(3)))
               + C8_In(RLt(R(8), x) /\ RLe(x, R(12)))
               + C8_In(RLe(x, R(2))) + C8_In(RLt(R(12), x))]

C8_S(signal) ==
    CASE signal = "STRONG_BUY" -> 20
      [] signal = "BUY" -> 15
      [] signal = "HOLD" -> 5
      [] OTHER -> 0

\* ROIC when there is one (and it is not 0), else ROE
C8_PrimaryReturn(qm) ==
    IF Len(qm.roic_percent) = 1 /\ qm.roic_percent[1] # Zero
    THEN qm.roic_percent[1] ELSE qm.roe_percent

C8_Sum(a) ==
    C8_Q(C8_PrimaryReturn(a.quality_metrics)).points
    + C8_D(a.assessment.discount).points
    + C8_S(a.assessment.signal)
    + C8_F(a.quality_metrics.fcf_yield).points

\* C8: on the normal path _calculate_score is min(100, Q + D + S + F) with the
\* buckets of the quality, discount, signal and FCF factors, and every value
\* falls into exactly one bucket of its factor.
C8_NormalPathScore ==
    \A c \in ScoreCalls :
        (~c.is_value_trap /\ ~c.exceptional_quality) =>
            /\ c.score = R(IF C8_Sum(c.analysis) < 100 THEN C8_Sum(c.analysis) ELSE 100)
            /\ C8_Q(C8_PrimaryReturn(c.analysis.quality_metrics)).buckets = 1
            /\ C8_D(c.analysis.assessment.discount).buckets = 1
            /\ C8_F(c.analysis.quality_metrics.fcf_yield).buckets = 1

\* a normal-path call with the discount on the bucket boundary 15
C8_DiscountOnBoundary ==
    \E c \in ScoreCalls :
        /\ ~c.is_value_trap /\ ~c.exceptional_quality
        /\ c.analysis.assessment.discount = R(15)
        /\ c.analysis.assessment.signal = "BUY"
        /\ c.score = R(C8_Sum(c.analysis))

\* C9: for an analysis flagged as a value trap _calculate_score is
\* max(0, 20 * (1 - trap_score)), at most 20, whatever the quality tier, the
\* return, the discount, the signal and the FCF yield are.
C9_TrapPathScore ==
    \A c \in ScoreCalls :
        c.is_value_trap =>
            LET t == c.analysis.value_trap_flag.trap_score
                raw == Q(20 * (t.d - t.n), t.d)
            IN  /\ c.score = (IF raw.n > 0 THEN raw ELSE Zero)
                /\ RLe(c.score, R(20))

\* a trap of EXCEPTIONAL quality, scored on the trap path
C9_ExceptionalTrap ==
    \E c \in ScoreCalls :
        /\ c.is_value_trap /\ c.exceptional_quality
        /\ c.analysis.value_trap_flag.trap_score = Pct(70)
        /\ c.score = R(6)

C10_F(x) ==
    CASE RLe(R(3), x) /\ RLe(x, R(10)) -> 25
      [] RLt(R(2), x) /\ RLt(x, R(3)) -> 15
      [] RLt(R(10), x) /\ RLe(x, R(15)) -> 15
      [] RLe(x, R(2)) -> 5
      [] RLt(R(15), x) -> 0

\* C10: for a non-trap analysis of EXCEPTIONAL quality _calculate_score is
\* 35 + signal bonus + FCF-yield bonus, a value the discount has no part in.
C10_ExceptionalPathScore ==
    \A c \in ScoreCalls :
        (~c.is_value_trap /\ c.exceptional_quality) =>
            c.score = R(35 + C8_S(c.analysis.assessment.signal)
                           + C10_F(c.analysis.quality_metrics.fcf_yield))

\* an exceptional analysis whose discount would earn 30 points on the normal path
C10_ExceptionalWithDiscount ==
    \E c \in ScoreCalls :
        /\ ~c.is_value_trap /\ c.exceptional_quality
        /\ RLe(R(25), c.analysis.assessment.discount)
        /\ RLe(c.analysis.assessment.discount, R(60))
        /\ c.analysis.assessment.signal = "HOLD"
        /\ c.score = R(65)

\* the two scores of a pair that was scored on the normal path
NormalPair(key) ==
    /\ op = "_calculate_score twice" /\ Len(ret) = 2
    /\ arg.key = key
    /\ ~arg.first.value_trap_flag.is_trap
    /\ ~arg.first.exceptional_quality

\* C11 as stated: on the normal path, all else fixed, d1 <= d2 implies that
\* the discount contribution for d1 is at most the one for d2.
C11_DiscountMonotone ==
    (NormalPair("discount") /\ RLe(arg.first.assessment.discount, arg.value))
    => RLe(ret[1], ret[2])

\* C11 as amended: on the normal path, all else fixed, the discount
\* contribution does not decrease as the discount grows up to 60 (d1 <= d2 <= 60).
C11_DiscountMonotoneUpTo60 ==
    (/\ NormalPair("discount")
     /\ RLe(arg.first.assessment.discount, arg.value)
     /\ RLe(arg.value, R(60)))
    => RLe(ret[1], ret[2])

\* a larger discount, not above 60, that earns strictly more
C11_LargerDiscountScoresMore ==
    /\ NormalPair("discount")
    /\ arg.first.assessment.discount = R(15)
    /\ arg.value = R(20)
    /\ RLt(ret[1], ret[2])

\* the primary return of the first and of the second analysis of a pair
C12_FirstReturn == C8_PrimaryReturn(arg.first.quality_metrics)

C12_SecondReturn ==
    C8_PrimaryReturn(second_analysis(arg.first, arg.key, arg.value).quality_metrics)

\* C12: on the normal path, all else fixed, a primary return (ROIC when present
\* and not 0, else ROE) that is at least as large never scores less.
C12_QualityMonotone ==
    ((NormalPair("roe_percent") \/ NormalPair("roic_percent"))
     /\ RLe(C12_FirstReturn, C12_SecondReturn))
    => RLe(ret[1], ret[2])

\* a ROIC of 20 in place of a ROIC of 13 scores strictly more
C12_LargerReturnScoresMore ==
    /\ NormalPair("roic_percent")
    /\ C12_FirstReturn = R(13)
    /\ C12_SecondReturn = R(20)
    /\ RLt(ret[1], ret[2])

\* the yield of the claim: fcf_per_share / price when both are > 0, else 0
C13_Yield(a) ==
    IF RLt(Zero, a.current_price) /\ RLt(Zero, a.fcf_per_share)
    THEN RDiv(a.fcf_per_share, a.current_price) ELSE Zero

\* the three signals of the claim, as a sequence of 0 / 1
C13_Signals(a) ==
    << C8_In(RLt(Pct(15), C13_Yield(a))),
       C8_In(RLt(a.roe, Pct(10))),
       C8_In(RLe(a.growth_rate, Pct(3)) /\ RLt(Pct(10), C13_Yield(a))) >>

\* the result r is the one the claim describes for the input a
C13_AsClaimed(a, r) ==
    LET sig == C13_Signals(a)
    IN  /\ "fcf_yield" \in DOMAIN r
        /\ r.fcf_yield = C13_Yield(a)
        /\ r.trap_score = Q(40 * sig[1] + 30 * sig[2] + 30 * sig[3], 100)
        /\ RLe(Zero, r.trap_score) /\ RLe(r.trap_score, One)
        /\ Len(r.reasons) = sig[1] + sig[2] + sig[3]
        /\ r.is_trap = RLe(Q(1, 2), r.trap_score)

\* C13 as stated: for all inputs, price <= 0 included, detect_value_trap
\* returns the yield (0 unless price > 0 and fcf_per_share > 0), the trap_score
\* 0.4 [yield > 0.15] + 0.3 [roe < 0.10] + 0.3 [growth <= 0.03 and yield > 0.10]
\* in [0, 1], one reason per triggered signal and is_trap = (trap_score >= 0.5).
C13_TrapScoreAllPrices ==
    Returned("detect_value_trap") => C13_AsClaimed(arg, ret[1])

\* C13 as amended: the same for price > 0; for price <= 0 detect_value_trap
\* returns is_trap false, trap_score 0 and no reason, whatever the ROE is.
C13_TrapScorePositivePrice ==
    Returned("detect_value_trap") =>
        IF RLt(Zero, arg.current_price)
        THEN C13_AsClaimed(arg, ret[1])
        ELSE ret[1] = [is_trap |-> FALSE, trap_score |-> Zero, reasons |-> <<>>]

\* the yield is exactly 0.15: signal 1 does not fire, signals 2 and 3 do
C13_YieldOnThreshold ==
    /\ Returned("detect_value_trap")
    /\ RLt(Zero, arg.current_price)
    /\ C13_Yield(arg) = Pct(15)
    /\ ret[1].trap_score = Pct(60)
    /\ ret[1].reasons = <<"low_roe", "low_growth_high_yield">>
    /\ ret[1].is_trap

\* the primary return of the claim: roic when present and > 0, else roe
C14_PrimaryReturn(a) ==
    IF Len(a.roic) = 1 /\ RLt(Zero, a.roic[1]) THEN a.roic[1] ELSE a.roe

\* the tier of the claim for the primary return x: <<quality, margin of safety>>
C14_Tier(x) ==
    CASE RLe(Pct(40), x) -> <<"EXCEPTIONAL", Pct(15)>>
      [] RLe(Pct(20), x) /\ RLt(x, Pct(40)) -> <<"EXCELLENT", Pct(20)>>
      [] RLe(Pct(15), x) /\ RLt(x, Pct(20)) -> <<"GOOD", Pct(20)>>
      [] RLe(Pct(10), x) /\ RLt(x, Pct(15)) -> <<"ADEQUATE", Pct(35)>>
      [] RLe(Pct(8), x) /\ RLt(x, Pct(10)) -> <<"POOR", Pct(50)>>
      [] RLt(x, Pct(8)) -> <<"WEAK", Pct(65)>>

C14_AsClaimed(a, r) ==
    /\ r.return_metric = C14_PrimaryReturn(a)
    /\ <<r.quality, r.margin_of_safety>> = C14_Tier(C14_PrimaryReturn(a))
    /\ r.margin_of_safety \in {Pct(15), Pct(20), Pct(35), Pct(50), Pct(65)}

\* C14: calculate_quality_rating takes roic when present and > 0, else roe,
\* maps it to its tier and that tier's margin of safety, and of two calls the
\* one with the larger primary return never gets the larger margin of safety.
C14_QualityTiers ==
    (op = "calculate_quality_rating twice" /\ Len(ret) = 2) =>
        /\ C14_AsClaimed(arg.first, ret[1])
        /\ C14_AsClaimed(arg.second, ret[2])
        /\ RLe(C14_PrimaryReturn(arg.first), C14_PrimaryReturn(arg.second))
              => RLe(ret[2].margin_of_safety, ret[1].margin_of_safety)

\* a ROIC of 0 is passed over for a ROE of 40%, a ROIC of 9% is preferred to it
C14_RoicZeroFallsBackToRoe ==
    /\ op = "calculate_quality_rating twice" /\ Len(ret) = 2
    /\ arg.first.roic = Some(Zero) /\ arg.first.roe = Pct(40)
    /\ arg.second.roic = Some(Pct(9)) /\ arg.second.roe = Pct(40)
    /\ ret[1].quality = "EXCEPTIONAL"
    /\ ret[2].quality = "POOR"

\* the growth rate and the discount rate calculate_intrinsic_value works with
C15_Growth(a) ==
    LET g == IF Len(a.growth_rate) = 1 THEN a.growth_rate[1]
             ELSE IF Len(a.ticker) = 1 /\ a.ticker[1] # ""
                  THEN get_sector_growth_rate(a.ticker[1]).growth
                  ELSE Pct(3)
    IN  IF RLt(g, Zero) THEN Zero ELSE IF RLt(Pct(8), g) THEN Pct(8) ELSE g

C15_Wacc(a) == IF Len(a.wacc) = 1 THEN a.wacc[1] ELSE Q(1, 15)

\* C15: for fcf_per_share > 0 and wacc > growth_rate calculate_intrinsic_value
\* returns a pair whose first element, the intrinsic value, is > 0 and whose
\* second element, the value with margin of safety, is strictly less.
C15_SecondBelowFirst ==
    (/\ Returned("calculate_intrinsic_value")
     /\ RLt(Zero, arg.fcf_per_share)
     /\ RLt(C15_Growth(arg), C15_Wacc(arg)))
    => /\ ~IsRaised(ret[1])
       /\ RLt(Zero, ret[1][1])
       /\ RLt(ret[1][2], ret[1][1])

\* C16: for fcf_per_share > 0 and wacc <= the clamped growth rate
\* calculate_intrinsic_value does not fail and returns the pair
\* (fcf_per_share * (1 + growth_rate) / (wacc + 0.01), 0).
C16_FallbackNeverFails ==
    (/\ Returned("calculate_intrinsic_value")
     /\ RLt(Zero, arg.fcf_per_share)
     /\ RLe(C15_Wacc(arg), C15_Growth(arg)))
    => /\ ~IsRaised(ret[1])
       /\ ret[1] = <<RDiv(RMul(arg.fcf_per_share, RAdd(One, C15_Growth(arg))),
                          RAdd(C15_Wacc(arg), Pct(1))), Zero>>

\* C17: in the analysis of ValuationCalculator.analyze_stock, when
\* operating_cash_flow > capex and shares_outstanding > 0 the FCF is their
\* positive difference, fcf_per_share is fcf / shares_outstanding and the
\* intrinsic value is > 0; otherwise fcf_per_share <= 0 and the intrinsic value
\* is 0, whatever the ticker and the growth rate are.
C17_FcfDecidesIntrinsicValue ==
    Returned("ValuationCalculator.analyze_stock") =>
        IF arg.operating_cash_flow > arg.capex /\ arg.shares_outstanding > 0
        THEN /\ ret[1].metrics.fcf = arg.operating_cash_flow - arg.capex
             /\ ret[1].metrics.fcf > 0
             /\ ret[1].metrics.fcf_per_share
                   = Q(arg.operating_cash_flow - arg.capex, arg.shares_outstanding)
             /\ RLt(Zero, ret[1].valuation.intrinsic_value)
        ELSE /\ RLe(ret[1].metrics.fcf_per_share, Zero)
             /\ ret[1].valuation.intrinsic_value = Zero

\* operating cash flow 10000, capex 2000, 1000 shares, growth override 0.06:
\* fcf 8000, fcf_per_share 8, intrinsic value > 0
C17_EndToEndCase ==
    /\ Returned("ValuationCalculator.analyze_stock")
    /\ arg.operating_cash_flow = 10000 /\ arg.capex = 2000
    /\ arg.shares_outstanding = 1000
    /\ arg.growth_rate = Some(Pct(6))
    /\ ret[1].metrics.fcf = 8000
    /\ ret[1].metrics.fcf_per_share = R(8)
    /\ RLt(Zero, ret[1].valuation.intrinsic_value)

\* the provider's inputs with every required field strictly positive
C18_AllPositive ==
    /\ Returned("StockRecommender.analyze_stock")
    /\ arg.metrics.kind = "metrics"
    /\ arg.metrics.current_price > 0
    /\ arg.metrics.shares_outstanding > 0
    /\ arg.metrics.operating_cash_flow > 0
    /\ arg.metrics.capex > 0
    /\ arg.metrics.net_income > 0
    /\ arg.metrics.total_equity > 0

\* C18 as stated: for inputs whose required fields are all strictly positive
\* StockRecommender.analyze_stock returns an analysis that carries the ticker
\* and a recommendation_score strictly greater than 0.
C18_ScorePositive ==
    C18_AllPositive =>
        /\ ~IsNone(ret[1])
        /\ Val(ret[1]).ticker = arg.ticker
        /\ RLt(Zero, Val(ret[1]).recommendation_score)

\* C18 as amended: the analysis is returned, carries the ticker and has a
\* score >= 0, which is 0 exactly when the analysis is a value trap with a
\* trap_score of 1.
C18_ScorePositiveUnlessFullTrap ==
    C18_AllPositive =>
        /\ ~IsNone(ret[1])
        /\ Val(ret[1]).ticker = arg.ticker
        /\ RLe(Zero, Val(ret[1]).recommendation_score)
        /\ (Val(ret[1]).recommendation_score = Zero)
              <=> (/\ Val(ret[1]).value_trap_flag.is_trap
                   /\ Val(ret[1]).value_trap_flag.trap_score = One)

\* a trap on which all three signals fire is returned with the score 0
C18_FullTrapScoresZero ==
    /\ C18_AllPositive
    /\ ~IsNone(ret[1])
    /\ Val(ret[1]).value_trap_flag.trap_score = One
    /\ Val(ret[1]).recommendation_score = Zero

CallsFor(t) == {i \in 1..Len(history) : history[i].ticker = t}

\* so far no call asked for a refresh and the provider never raised
C20_Undisturbed ==
    \A i \in 1..Len(history) : ~history[i].force_refresh /\ ~history[i].raised

\* C20: over calls of get_stock_info without force_refresh in which the
\* provider does not raise, a fetcher with the cache enabled contacts the
\* provider once per distinct ticker and answers every later call for the
\* ticker with the first result; a fetcher with the cache disabled contacts the
\* provider on every call and its stock_cache stays empty.
C20_StockCache ==
    C20_Undisturbed =>
        IF cache_enabled
        THEN \A t \in FetcherTickers :
                /\ contacts[t] = (IF CallsFor(t) = {} THEN 0 ELSE 1)
                /\ \A i, j \in CallsFor(t) : history[i].info = history[j].info
        ELSE /\ \A t \in FetcherTickers : contacts[t] = Cardinality(CallsFor(t))
             /\ DOMAIN stock_cache = {}

\* three calls for one ticker on a caching fetcher, one contact
C20_ThreeCallsOneContact ==
    /\ cache_enabled
    /\ C20_Undisturbed
    /\ Cardinality(CallsFor("TEST")) = 3
    /\ contacts["TEST"] = 1
    /\ history[3].info = {<<"currentPrice", Num(100)>>}

\* ---- C21 ----

\* C21: calculate_free_cash_flow returns max(operating_cash_flow -
\* capital_expenditures, 0): the result is never negative, it is the
\* difference when the difference is positive, and it is 0 when the capital
\* expenditures are at least the operating cash flow.
C21_FcfIsFlooredDifference ==
    Returned("calculate_free_cash_flow") =>
        /\ ret[1] >= 0
        /\ (arg.operating_cash_flow > arg.capital_expenditures
                => ret[1] + arg.capital_expenditures = arg.operating_cash_flow)
        /\ (arg.capital_expenditures >= arg.operating_cash_flow => ret[1] = 0)

\* capex above the operating cash flow: the test case (100, 200) returned 0
C21_NegativeBecomesZero ==
    /\ Returned("calculate_free_cash_flow")
    /\ arg.operating_cash_flow = 100 /\ arg.capital_expenditures = 200
    /\ ret[1] = 0

\* ---- C22 ----

RatioOps == {"calculate_fcf_per_share", "calculate_roe", "calculate_roic"}

\* C22: each ratio helper returns 0 when its denominator is not positive, for
\* every numerator, and the exact quotient when the denominator is positive.
C22_RatioGuards ==
    (op \in RatioOps /\ Len(ret) = 1) =>
        /\ (arg.denominator <= 0 => ret[1].n = 0)
        /\ (arg.denominator > 0
                => ret[1].n * arg.denominator = arg.numerator * ret[1].d /\ ret[1].d > 0)

\* a negative equity with a positive income: the ratio is 0, not a negative quotient
C22_NegativeDenominator ==
    /\ Returned("calculate_roe")
    /\ arg.numerator = 1000 /\ arg.denominator = -10000
    /\ ret[1].n = 0

\* ---- C23 ----

\* the growth rate as calculate_intrinsic_value clamps it
C23_Clamped(g) == IF g.n < 0 THEN Zero ELSE IF 100 * g.n > 8 * g.d THEN Q(8, 100) ELSE g

\* fcf_per_share * (1 + g) / (1/15 + 0.01)
C23_Simplified(f, g) == RDiv(RMul(f, RAdd(One, g)), RAdd(Q(1, 15), Q(1, 100)))

C23_Sectors == {"TECH_LARGE", "NETWORK", "FINTECH", "SOCIAL_MEDIA"}

\* signal and rating of price p against intrinsic value v with margin of safety m
C23_Band(p, v, m) ==
    IF RLt(p, RMul(v, RSub(One, m))) THEN <<"STRONG_BUY", "SIGNIFICANTLY_UNDERVALUED">>
    ELSE IF RLt(p, v) THEN <<"BUY", "UNDERVALUED">>
    ELSE IF RLt(p, RMul(v, Q(115, 100))) THEN <<"HOLD", "FAIRLY_VALUED">>
    ELSE <<"AVOID", "OVERVALUED">>

\* C23: ValuationCalculator.analyze_stock always discounts with the WACC 1/15;
\* with fcf_per_share > 0 the intrinsic value is the simplified estimate
\* exactly when the growth rate clamped to [0, 0.08] is at least 1/15, which
\* without an override is exactly on the tickers of TECH_LARGE, NETWORK,
\* FINTECH and SOCIAL_MEDIA; for those the intrinsic value is
\* fcf_per_share * 1.08 / (1/15 + 0.01), the margin-of-safety value is taken
\* from it, and the assessment is the one of the ordinary price bands, with
\* the keys of any other analysis.
C23_DegenerateBranchOnDefaultWacc ==
    Returned("ValuationCalculator.analyze_stock") =>
        LET a == ret[1]
            f == a.metrics.fcf_per_share
            g == IF IsNone(arg.growth_rate)
                 THEN a.valuation.growth_rate ELSE Val(arg.growth_rate)
            cg == C23_Clamped(g)
            degenerate == 15 * cg.n >= cg.d
            v == a.valuation.intrinsic_value
        IN  /\ a.valuation.wacc = Q(1, 15)
            /\ f.n > 0 => (degenerate <=> v = C23_Simplified(f, cg))
            /\ IsNone(arg.growth_rate) => (degenerate <=> a.valuation.sector \in C23_Sectors)
            /\ (IsNone(arg.growth_rate) /\ a.valuation.sector \in C23_Sectors /\ f.n > 0) =>
                  /\ v = RDiv(RMul(f, Q(108, 100)), RAdd(Q(1, 15), Q(1, 100)))
                  /\ a.valuation.value_with_margin_of_safety
                        = RMul(v, RSub(One, a.quality.margin_of_safety))
                  /\ ~a.value_trap_flag.is_trap =>
                        <<a.assessment.signal, a.assessment.rating>>
                            = C23_Band(a.current_price, v, a.quality.margin_of_safety)
                  /\ DOMAIN a = {"ticker", "current_price", "metrics", "valuation",
                                 "quality", "value_trap_flag", "assessment"}
                  /\ DOMAIN a.valuation = {"intrinsic_value", "value_with_margin_of_safety",
                                           "wacc", "growth_rate", "sector"}

\* a TECH_LARGE ticker, whose sector rate 0.08 is the cap itself: the
\* simplified estimate 8 * 1.08 / (1/15 + 0.01), rated by the price bands
C23_TechLargeSimplified ==
    /\ Returned("ValuationCalculator.analyze_stock")
    /\ arg.ticker = "AAPL" /\ IsNone(arg.growth_rate)
    /\ ret[1].metrics.fcf_per_share = R(8)
    /\ ret[1].valuation.intrinsic_value = Q(2592, 23)
    /\ ret[1].assessment.signal = "BUY"

\* ---- C24 ----

\* C24: detect_value_trap flags a trap if and only if at least two of its
\* three signals fire; trap_score is one of 0, 0.3, 0.4, 0.6, 0.7 and 1.0;
\* every flagged trap has fcf_yield > 0.10, so fcf_per_share > 0 and
\* price > 0; a high yield with growth <= 0.03 is flagged without a low ROE,
\* and a low ROE with growth <= 0.03 and a yield in (0.10, 0.15] is flagged
\* without a yield above 0.15.
C24_TrapNeedsTwoSignals ==
    Returned("detect_value_trap") =>
        LET sig == C13_Signals(arg)
            y == C13_Yield(arg)
            r == ret[1]
        IN  /\ r.is_trap <=> sig[1] + sig[2] + sig[3] >= 2
            /\ r.trap_score \in {Zero, Q(3, 10), Q(4, 10), Q(6, 10), Q(7, 10), One}
            /\ r.is_trap => /\ 10 * y.n > y.d
                            /\ arg.fcf_per_share.n > 0
                            /\ arg.current_price.n > 0
            /\ (100 * y.n > 15 * y.d /\ 100 * arg.growth_rate.n <= 3 * arg.growth_rate.d)
                    => r.is_trap
            /\ (/\ 10 * arg.roe.n < arg.roe.d
                 /\ 100 * arg.growth_rate.n <= 3 * arg.growth_rate.d
                 /\ 10 * y.n > y.d) => r.is_trap

\* a trap without a low ROE: yield 0.16, ROE 0.15, growth 0.03, score 0.7
C24_TrapWithoutLowRoe ==
    /\ Returned("detect_value_trap")
    /\ arg.roe = Pct(15) /\ arg.growth_rate = Pct(3)
    /\ arg.fcf_per_share = R(16) /\ arg.current_price = R(100)
    /\ ret[1].is_trap
    /\ ret[1].trap_score = Pct(70)

\* ---- C25 ----

C26_RateAboveCap(sector) ==
    IF sector \in {"NETWORK", "SOCIAL_MEDIA"} THEN Q(12, 100)
    ELSE IF sector = "FINTECH" THEN Q(10, 100)
    ELSE Zero

\* C26: valuation.growth_rate, which is also the rate detect_value_trap
\* receives, is the override or the sector rate as given (0.12 for NETWORK and
\* SOCIAL_MEDIA, 0.10 for FINTECH), while the intrinsic value is the one of
\* that rate clamped to [0, 0.08]; for a rate above 0.08 or a negative
\* override the two differ.
C26_RecordedRateIsUnclamped ==
    Returned("ValuationCalculator.analyze_stock") =>
        LET a == ret[1]
            f == a.metrics.fcf_per_share
            g == a.valuation.growth_rate
            cg == C23_Clamped(g)
            trap == [roe |-> a.metrics.roe, fcf_per_share |-> f,
                     current_price |-> a.current_price, growth_rate |-> g]
            sig == C13_Signals(trap)
        IN  /\ ~IsNone(arg.growth_rate) => g = Val(arg.growth_rate)
            /\ (IsNone(arg.growth_rate) /\ C26_RateAboveCap(a.valuation.sector).n > 0)
                    => g = C26_RateAboveCap(a.valuation.sector)
            /\ a.current_price.n > 0 =>
                    a.value_trap_flag.trap_score
                        = Q(40 * sig[1] + 30 * sig[2] + 30 * sig[3], 100)
            /\ f.n > 0 =>
                    a.valuation.intrinsic_value
                        = calculate_intrinsic_value(f, Some(a.ticker), Some(cg), NoneVal,
                              TERMINAL_GROWTH_DEFAULT, PROJECTION_YEARS_DEFAULT)[1]
            /\ (f.n > 0 /\ 100 * g.n > 8 * g.d) =>
                    /\ a.valuation.intrinsic_value = C23_Simplified(f, Q(8, 100))
                    /\ a.valuation.intrinsic_value # C23_Simplified(f, g)
            /\ (g.n < 0 \/ 100 * g.n > 8 * g.d) => g # cg

\* a NETWORK ticker: the analysis reports 0.12, the value is the one of 0.08
C26_NetworkReports12 ==
    /\ Returned("ValuationCalculator.analyze_stock")
    /\ arg.ticker = "V" /\ IsNone(arg.growth_rate)
    /\ ret[1].valuation.growth_rate = Q(12, 100)
    /\ ret[1].metrics.fcf_per_share = R(8)
    /\ ret[1].valuation.intrinsic_value = Q(2592, 23)

\* ---- C27 ----

\* operating_income or invested_capital is missing or zero
C27_Missing(oi, ic) == Len(oi) = 0 \/ Len(ic) = 0 \/ oi = <<0>> \/ ic = <<0>>

\* the roic of an analysis is absent exactly when an input is missing or zero,
\* and is never negative
C27_RoicAsClaimed(a, oi, ic) ==
    /\ Len(a.metrics.roic) = 0 <=> C27_Missing(oi, ic)
    /\ Len(a.metrics.roic) = 1 => a.metrics.roic[1].n >= 0

\* C27: the ROIC of an analysis is absent (operating_income or
\* invested_capital missing or zero) or >= 0; the primary return of the quality
\* rating (roic if present and > 0, else roe), times 100, is the primary
\* return of the normal scoring path (roic_percent if truthy, else
\* roe_percent), so the tier comes from the metric the score uses, and an
\* analysis scored on the normal path has a primary return below 40%.
C27_SamePrimaryReturn ==
    /\ Returned("ValuationCalculator.analyze_stock")
            => C27_RoicAsClaimed(ret[1], arg.returns[1], arg.returns[2])
    /\ \A a \in RecommenderAnalysis :
            LET rated == IF Len(a.metrics.roic) = 1 /\ a.metrics.roic[1].n > 0
                         THEN a.metrics.roic[1] ELSE a.metrics.roe
                scored_on == IF Len(a.quality_metrics.roic_percent) = 1
                                  /\ a.quality_metrics.roic_percent[1].n # 0
                             THEN a.quality_metrics.roic_percent[1]
                             ELSE a.quality_metrics.roe_percent
            IN  /\ C27_RoicAsClaimed(a, arg.metrics.operating_income,
                                     arg.metrics.invested_capital)
                /\ a.quality.return_metric = rated
                /\ scored_on = RMul(R(100), rated)
                /\ <<a.quality.quality, a.quality.margin_of_safety>> = C14_Tier(rated)
                /\ (~a.value_trap_flag.is_trap /\ a.quality.quality # "EXCEPTIONAL")
                        => /\ RLt(scored_on, R(40))
                           /\ quality_score(a.quality_metrics.roe_percent,
                                            a.quality_metrics.roic_percent)
                                = C8_Q(RMul(R(100), rated)).points

\* an operating loss: the roic is present and 0, and rating and score both
\* fall back to the ROE
C27_LossGivesRoicZero ==
    /\ Returned("StockRecommender.analyze_stock")
    /\ Len(ret[1]) = 1
    /\ arg.metrics.operating_income = <<-3000>>
    /\ ret[1][1].metrics.roic = <<Zero>>
    /\ Len(ret[1][1].quality_metrics.roic_percent) = 0
    /\ ret[1][1].quality.return_metric = ret[1][1].metrics.roe
    /\ ~ret[1][1].value_trap_flag.is_trap
    /\ ret[1][1].quality.quality # "EXCEPTIONAL"

\* ---- C28 ----

\* C28: calculate_intrinsic_value does not compare wacc with the terminal
\* growth rate.  With the default WACC and fcf_per_share > 0 it returns a
\* positive value; with a given wacc above the clamped growth rate it raises
\* ZeroDivisionError at wacc = 0.025 and returns a value below the discounted
\* cash flows, the terminal value being negative, for wacc < 0.025; with
\* wacc = -0.01, which is <= every clamped growth rate, it raises
\* ZeroDivisionError in the fallback formula.
C28_NoTerminalGuard ==
    (Returned("calculate_intrinsic_value") /\ arg.fcf_per_share.n > 0) =>
        LET g == C15_Growth(arg)
            w == C15_Wacc(arg)
            flows == FromFx(dcf_loop(1, arg.projection_years, ToFx(arg.fcf_per_share),
                                     FxScale, 0, g, w).pv_fcf)
        IN  /\ Len(arg.wacc) = 0 => (Len(ret[1]) = 2 /\ ret[1][1].n > 0)
            /\ (RLt(g, w) /\ w = Q(25, 1000)) => ret[1] = ZeroDivisionError
            /\ (RLt(g, w) /\ RLt(w, Q(25, 1000)))
                    => (Len(ret[1]) = 2 /\ RLt(ret[1][1], flows) /\ flows.n > 0)
            /\ w = Q(-1, 100) => ret[1] = ZeroDivisionError

\* wacc 0.025 above a growth rate clamped to 0: the terminal denominator is 0
C28_TerminalDenominatorZero ==
    /\ Returned("calculate_intrinsic_value")
    /\ arg.fcf_per_share = R(5)
    /\ arg.wacc = <<Q(25, 1000)>>
    /\ arg.growth_rate = <<Q(-1, 100)>>
    /\ ret[1] = ZeroDivisionError

\* ---- C29 ----

\* the tickers of the current call whose analysis succeeded, among the first i
RECURSIVE C29_Succeeded(_)
C29_Succeeded(i) ==
    IF i = 0 THEN <<>>
    ELSE LET a == StockRecommender_analyze_stock(tickers[i], fetched[i])
         IN  IF Len(a) = 1 THEN Append(C29_Succeeded(i - 1), a[1])
             ELSE C29_Succeeded(i - 1)

\* C29: during and after every analyze_universe call, whatever calls came
\* before it, self.analyses is exactly the successful analyses of the tickers
\* this call has gone through, in their input order and one per occurrence of
\* a ticker; top_n does not shorten it and nothing of an earlier call is in it.
C29_AnalysesOfLastCall ==
    /\ Len(fetched) = idx - 1
    /\ pc \in {"done", "raised"} => Len(fetched) = Len(tickers)
    /\ pc # "idle" =>
          /\ analyses = C29_Succeeded(Len(fetched))
          /\ \A i \in 1..Len(analyses) : "recommendation_score" \in DOMAIN analyses[i]

\* a finished call on the same ticker twice, both analysed, with top_n = 1:
\* two analyses are kept, one row is returned
C29_DuplicateKeptTopNIgnored ==
    /\ pc = "done"
    /\ Len(tickers) = 2 /\ tickers[1] = tickers[2]
    /\ top_n = 1
    /\ Len(analyses) = 2
    /\ analyses[1].ticker = analyses[2].ticker
    /\ Len(table) = 1

\* ---- C30 ----

\* x > 0 for a cached amount
C30_Positive(x) == ~x.nan /\ x.v > 0

\* every entry of data_cache is a validated record of its ticker, and a
\* fetcher without cache has none
C30_CacheValidated ==
    /\ \A t \in DOMAIN data_cache :
          /\ data_cache[t].ticker = t
          /\ C30_Positive(data_cache[t].current_price)
          /\ C30_Positive(data_cache[t].shares_outstanding)
          /\ C30_Positive(data_cache[t].operating_cash_flow)
          /\ C30_Positive(data_cache[t].net_income)
          /\ C30_Positive(data_cache[t].total_equity)
    /\ ~cache_enabled => DOMAIN data_cache = {}

\* a get_metrics call that returns None caches nothing, and one that caches
\* stores the record it returns
C30_AbsentNotCached ==
    metrics_history' # metrics_history =>
        LET e == metrics_history'[Len(metrics_history')]
        IN  /\ IsNone(e.metrics) => data_cache' = data_cache
            /\ data_cache' # data_cache =>
                  /\ ~IsNone(e.metrics)
                  /\ data_cache' = SetItem(data_cache, e.ticker, Val(e.metrics))

\* a get_metrics call without force_refresh on a cached ticker returns the
\* cached record and contacts nobody
C30_CachedReturnedUnchanged ==
    metrics_history' # metrics_history =>
        LET e == metrics_history'[Len(metrics_history')]
        IN  (cache_enabled /\ e.ticker \in DOMAIN data_cache /\ ~e.force_refresh) =>
                /\ e.metrics = Some(data_cache[e.ticker])
                /\ ~e.contacted
                /\ contacts' = contacts
                /\ data_cache' = data_cache
                /\ stock_cache' = stock_cache

\* a get_metrics call without force_refresh on a ticker whose stored info is
\* empty returns None and contacts nobody
C30_EmptyInfoAnswersNone ==
    metrics_history' # metrics_history =>
        LET e == metrics_history'[Len(metrics_history')]
        IN  (/\ cache_enabled
             /\ e.ticker \in DOMAIN stock_cache
             /\ stock_cache[e.ticker] = {}
             /\ ~e.force_refresh) =>
                /\ IsNone(e.metrics)
                /\ ~e.contacted
                /\ contacts' = contacts

\* an empty info the provider returned without raising is stored
C30_EmptyInfoStored ==
    history' # history =>
        LET h == history'[Len(history')]
        IN  (cache_enabled /\ ~h.raised /\ h.info = {} /\ contacts' # contacts) =>
                /\ h.ticker \in DOMAIN stock_cache'
                /\ stock_cache'[h.ticker] = {}

\* C30: in every reachable state of a DataFetcher each entry of data_cache is
\* a validated metrics record (current_price, shares_outstanding,
\* operating_cash_flow, net_income and total_equity all > 0); get_metrics never
\* caches an absent result, returns a cached record unchanged on later calls
\* without force_refresh and without contacting the provider, and leaves
\* data_cache empty when the cache is disabled; an empty info the provider
\* returned without raising is stored in stock_cache, and later get_metrics
\* calls for that ticker without force_refresh return None without contacting
\* the provider.
C30_DataCacheValidated ==
    /\ []C30_CacheValidated
    /\ [][C30_AbsentNotCached]_vars
    /\ [][C30_CachedReturnedUnchanged]_vars
    /\ [][C30_EmptyInfoAnswersNone]_vars
    /\ [][C30_EmptyInfoStored]_vars
====
